---- MODULE Spec2Model ----
(***************************************************************************)
(* redbucket: multi-zone leaky-bucket rate limiter.                        *)
(*                                                                         *)
(* Three backends are modelled: InMemoryRateLimiter (per-limit dict and    *)
(* lock), RedisTransactionalRateLimiter (WATCH / MGET / TIME / MULTI /     *)
(* SETEX / EXEC with the client's retry loop) and RedisScriptRateLimiter   *)
(* (one server-side Lua script per request).                               *)
(*                                                                         *)
(* Numbers.  Bucket values, bursts and delays are fixed-point integers in  *)
(* units of 1/One request; time is in whole seconds; a rate is in units    *)
(* per second.  A delay is an exact rational number of seconds.            *)
(***************************************************************************)
EXTENDS Integers, Sequences, FiniteSets, TLC

\* ---------------------------------------------------------------- bounds
MaxTime == 2
\* Requests the first thread may issue, and the concurrent thread.
MaxReqs == 2
MaxOther == 1

\* The literal 1 added to the bucket per request, in fixed-point units.
One == 2

\* Threads issuing requests.
Procs == {"p1", "p2"}
Budget == [p1 |-> MaxReqs, p2 |-> MaxOther]

\* Limit identifiers and request keys.
LNames == {"k1", "k2"}
ReqNames == LNames \cup {"k3"}
Keys == {"a"}

\* ------------------------------------------------------- Optional values
None == <<>>
Some(x) == <<x>>

\* --------------------------------------------------------------- numbers
Max(a, b) == IF a >= b THEN a ELSE b

Rat(n, d) == [kind |-> "rat", n |-> n, d |-> d]
Zero == Rat(0, 1)
RatLess(a, b) == a.n * b.d < b.n * a.d
RatEq(a, b) == a.n * b.d = b.n * a.d
\* Python max(a, b): the first argument unless the second is strictly larger.
PyMax(a, b) == IF RatLess(a, b) THEN b ELSE a

\* Lua's tostring(number) formats with C's "%.14g": SigDigits significant
\* decimal digits, rounded to nearest (ties to even), trailing zeros dropped.
\* (The exponent form "%g" switches to below 1e-5 and from 1e14 on is not
\* modelled: no delay of the model is in those ranges.)
SigDigits == 14

DigitChars == <<"0", "1", "2", "3", "4", "5", "6", "7", "8", "9">>

RECURSIVE NumDigits(_)
NumDigits(x) == IF x < 10 THEN 1 ELSE 1 + NumDigits(x \div 10)

\* The first k fractional digits of r/d, 0 <= r < d, and what is left.
RECURSIVE Digits(_, _, _)
Digits(r, d, k) == IF k = 0 THEN <<>> ELSE <<(r * 10) \div d>> \o Digits((r * 10) % d, d, k - 1)

RECURSIVE Rem(_, _, _)
Rem(r, d, k) == IF k = 0 THEN r ELSE Rem((r * 10) % d, d, k - 1)

RECURSIVE LeadingZeros(_, _)
LeadingZeros(r, d) == IF r = 0 \/ (r * 10) \div d > 0 THEN 0 ELSE 1 + LeadingZeros(r * 10, d)

RECURSIVE StripZeros(_)
StripZeros(ds) == IF ds # <<>> /\ ds[Len(ds)] = 0 THEN StripZeros(SubSeq(ds, 1, Len(ds) - 1)) ELSE ds

\* One unit added in the last place.
RECURSIVE Incr(_)
Incr(ds) ==
    IF ds = <<>> THEN [carry |-> 1, digits |-> <<>>]
    ELSE IF ds[Len(ds)] < 9 THEN [carry |-> 0, digits |-> [ds EXCEPT ![Len(ds)] = @ + 1]]
    ELSE LET r == Incr(SubSeq(ds, 1, Len(ds) - 1)) IN [carry |-> r.carry, digits |-> Append(r.digits, 0)]

RECURSIVE IntChars(_)
IntChars(x) == IF x < 10 THEN <<DigitChars[x + 1]>> ELSE Append(IntChars(x \div 10), DigitChars[(x % 10) + 1])

\* A decimal number: sign, integer part and fractional digits.
Dec(neg, ip, frac) == [kind |-> "dec", neg |-> neg, ip |-> ip, frac |-> frac]

\* The rational x rounded to `digits` significant decimal digits.
RoundSig(x, digits) ==
    LET n == IF x.n < 0 THEN -x.n ELSE x.n
        ip == n \div x.d
        r == n % x.d
        k == IF ip > 0 THEN Max(digits - NumDigits(ip), 0) ELSE LeadingZeros(r, x.d) + digits
        ds == Digits(r, x.d, k)
        rem == Rem(r, x.d, k)
        odd == IF k = 0 THEN ip % 2 = 1 ELSE ds[k] % 2 = 1
        up == 2 * rem > x.d \/ (2 * rem = x.d /\ odd)
        inc == IF up THEN Incr(ds) ELSE [carry |-> 0, digits |-> ds]
    IN  Dec(x.n < 0, ip + inc.carry, StripZeros(inc.digits))

\* Lua tostring(delay): the characters of the formatted number.
tostring(x) ==
    LET y == RoundSig(x, SigDigits)
    IN  (IF y.neg THEN <<"-">> ELSE <<>>) \o IntChars(y.ip)
        \o (IF y.frac = <<>> THEN <<>> ELSE <<".">> \o [i \in DOMAIN y.frac |-> DigitChars[y.frac[i] + 1]])

DigitOf(c) == CHOOSE v \in 0..9 : DigitChars[v + 1] = c

RECURSIVE IntOf(_)
IntOf(cs) == IF cs = <<>> THEN 0 ELSE 10 * IntOf(SubSeq(cs, 1, Len(cs) - 1)) + DigitOf(cs[Len(cs)])

\* Python float(result): the number the characters denote.
float(cs) ==
    LET neg == cs # <<>> /\ cs[1] = "-"
        body == IF neg THEN Tail(cs) ELSE cs
        dot == IF \E i \in DOMAIN body : body[i] = "." THEN CHOOSE i \in DOMAIN body : body[i] = "." ELSE Len(body) + 1
        fr == SubSeq(body, dot + 1, Len(body))
    IN  Dec(neg, IntOf(SubSeq(body, 1, dot - 1)), [i \in DOMAIN fr |-> DigitOf(fr[i])])

\* Equality and sign of numbers, rational or decimal.
RatIsDec(x, y) ==
    LET n == IF x.n < 0 THEN -x.n ELSE x.n
    IN  /\ (x.n < 0) = y.neg
        /\ n \div x.d = y.ip
        /\ StripZeros(Digits(n % x.d, x.d, Len(y.frac))) = y.frac
        /\ Rem(n % x.d, x.d, Len(y.frac)) = 0

NumEq(a, b) ==
    IF a.kind = "rat" /\ b.kind = "rat" THEN RatEq(a, b)
    ELSE IF a.kind = "rat" THEN RatIsDec(a, b)
    ELSE IF b.kind = "rat" THEN RatIsDec(b, a)
    ELSE a = b

NonNegative(a) == IF a.kind = "rat" THEN a.n >= 0 ELSE ~a.neg

\* ------------------------------------------------------------ data model
Zone(name, rate, expiry) == [name |-> name, rate |-> rate, expiry |-> expiry]
RateLimit(zone, burst, delay) == [zone |-> zone, burst |-> burst, delay |-> delay]
Response(accepted, delay) == [accepted |-> accepted, delay |-> delay]

\* Faulty variant: a rejection that carries a delay.
RejectWithDelay == Response(FALSE, Some(Zero))
\* The rejection the backends build: Response(False, None).
Reject == Response(FALSE, None)

\* Faulty variant: an acceptance that carries no delay.
AcceptWithoutDelay(delay) == Response(TRUE, None)
\* The acceptance the backends build: Response(True, delay).
Accept(delay) == Response(TRUE, Some(delay))

\* Configurations offered to the limiters (rate in units per second).
CfgA == [k1 |-> RateLimit(Zone("z1", 1, 2), 0, 0), k2 |-> RateLimit(Zone("z2", 3, 2), 0, One)]
CfgB == [k1 |-> RateLimit(Zone("z1", 1, 1), 0, 0), k2 |-> RateLimit(Zone("z2", 2, 5), One, One)]
CfgDup == [k1 |-> RateLimit(Zone("z1", 1, 2), 0, 0), k2 |-> RateLimit(Zone("z1", 3, 2), 0, One)]
Configs == {CfgA, CfgB, CfgDup}

\* RateLimiter._validate: no two limits may share a zone name.
ValidConfig(cfg) == \A a, b \in DOMAIN cfg : a # b => cfg[a].zone.name # cfg[b].zone.name

\* ------------------------------------------------------ leaky-bucket core
\* Faulty variants: a drain that is not floored at zero, and no drain at all.
NewValueDropFloor(limit, t0, v0, t1) == v0 - (t1 - t0) * limit.zone.rate + One
NewValueNoDrain(limit, t0, v0, t1) == v0 + One
\* The bucket value after draining since t0 and adding this request:
\* v1 = max(v0 - (t1 - t0) * rate, 0) + 1.
NewValue(limit, t0, v0, t1) == Max(v0 - (t1 - t0) * limit.zone.rate, 0) + One

\* Signed headroom c = burst + 1 - v1.
Headroom(limit, v1) == limit.burst + One - v1

\* Faulty variant: the queue has no limit.
RejectsNever(limit, c) == FALSE
\* Faulty variant: there is no queue, a request beyond the burst is turned away.
RejectsBeyondBurst(limit, c) == c < 0
\* Faulty variant: a request exactly at the queue limit is turned away.
RejectsInclusive(limit, c) == c <= -limit.delay
\* The request is rejected when c < -delay.
Rejects(limit, c) == c < -limit.delay

LimitDelay(limit, c) == IF c < 0 THEN Rat(-c, limit.zone.rate) ELSE Zero

\* The evaluation loop shared, line for line, by the three backends:
\* prior[i] is the state read for limits[i] (None when absent).  On a
\* rejection the loop returns at once; states then holds what had been
\* appended so far and is never written.
RECURSIVE Evaluate(_, _, _, _, _, _)
Evaluate(limits, prior, t1, i, delay, states) ==
    IF i > Len(limits)
    THEN [accepted |-> TRUE, delay |-> delay, states |-> states]
    ELSE LET limit == limits[i]
             s0 == IF prior[i] = None THEN <<t1, 0>> ELSE prior[i][1]
             v1 == NewValue(limit, s0[1], s0[2], t1)
             c == Headroom(limit, v1)
         IN  IF Rejects(limit, c)
             THEN [accepted |-> FALSE, delay |-> delay, states |-> states]
             ELSE Evaluate(limits, prior, t1, i + 1,
                           PyMax(delay, LimitDelay(limit, c)),
                           Append(states, <<t1, v1>>))

\* Faulty variant: the states computed before a rejection are stored too.
WrittenOnReject(r) == r.states
\* The states the write loop stores: all of them after an accepted
\* evaluation, none after the early return of a rejected one.
Written(r) == IF r.accepted THEN r.states ELSE <<>>

\* ----------------------------------------------------------------- state
VARIABLES
    deployment,   \* "local": one InMemoryRateLimiter; "remote": Redis limiters
    rate_limits,  \* per limiter object, its configured limits
    configured,   \* RateLimiter._configured of the Redis limiters
    cret,         \* per limiter, the outcome of its constructor or last configure call
    warned,       \* per limiter, the warnings its last configure call emitted
    id,           \* id() of each in-memory _RateLimit: the lock order
    version,      \* the Redis server's redis_version, as INFO reports it
    key_format,   \* per Redis limiter, its _key_format (None: no such object)
    codec,        \* per Redis limiter, the name of its _codec
    now,          \* the clock (time.monotonic / Redis TIME), in seconds
    state,        \* in-memory: per limit, dict key -> (timestamp, value)
    lock,         \* in-memory: per limit, the thread holding its lock
    redis,        \* the Redis keyspace: key -> value, TTL and deadline
    watching,     \* Redis: per client, the keys it WATCHes
    dirty,        \* Redis: per client, a watched key was modified
    pc,           \* per thread, its position in the request
    reqs,         \* per thread, the (limit name, key) list it evaluates
    held,         \* per thread, how many of its locks it has acquired
    t1,           \* per thread, the timestamp sampled for the request
    rstates,      \* per thread, the prior states it read
    ev,           \* per thread, the outcome of its evaluation loop
    wi,           \* per thread, how many states it has written
    reply,        \* per thread, the script's reply on its way to the client
    attempt,      \* per thread, which run of tx_fn its transaction is in
    ret,          \* per thread, what its last call returned or raised
    nreq,         \* per thread, the requests it has issued so far
    hist          \* history: per limit, the states written for the key, in order

vars == <<deployment, rate_limits, configured, cret, warned, id, version, key_format, codec, now, state, lock, redis,
          watching, dirty, pc, reqs, held, t1, rstates, ev, wi, reply, attempt, ret, nreq, hist>>

shared == <<deployment, rate_limits, configured, cret, warned, id, version, key_format, codec>>
locals == <<reqs, held, t1, rstates, ev, wi, reply, attempt>>

NoRet == [kind |-> "none"]
\* What get_state returned: a State or None.
ReturnState(s) == [kind |-> "state", value |-> s]
Return(resp) == [kind |-> "return", value |-> resp]
Raise(exc) == [kind |-> "raise", exc |-> exc]

\* A request's keyword arguments: distinct limit names, each with a key,
\* in the order the caller wrote them.
Pairs == ReqNames \X Keys
Requests == {ks \in UNION {[1..n -> Pairs] : n \in 0..Cardinality(LNames)} : \A i, j \in DOMAIN ks : i # j => ks[i][1] # ks[j][1]}

\* Two threads whose requests meet on the key of k2, the limit with a queue:
\* a request names k2 alone, or k1 and then k2.
RaceRequests == {<<<<"k2", "a">>>>, <<<<"k1", "a">>, <<"k2", "a">>>>}

\* The requests of two threads that take both locks, named in either order,
\* or the lock of k2 alone.
LocalRequests == {<<<<"k2", "a">>>>, <<<<"k1", "a">>, <<"k2", "a">>>>, <<<<"k2", "a">>, <<"k1", "a">>>>}

\* The requests made over a limiter's lifecycle: no keys, one limit, two
\* limits, a name that is not configured.
LifeRequests == {<<>>, <<<<"k1", "a">>>>, <<<<"k1", "a">>, <<"k2", "a">>>>, <<<<"k3", "a">>>>}

Range(f) == {f[x] : x \in DOMAIN f}
LimitsOf(cfg, rs) == [i \in DOMAIN rs |-> cfg[rs[i][1]]]

\* Faulty variant: names that are not configured are skipped silently.
LookupSkipUnknown(l, ks) == Some(SelectSeq(ks, LAMBDA x : x[1] \in DOMAIN rate_limits[l]))
\* The list comprehension over the keyword arguments: rate_limits[name] for
\* each of them, a KeyError (None here) when a name is not configured.
Lookup(l, ks) == IF \E i \in DOMAIN ks : ks[i][1] \notin DOMAIN rate_limits[l] THEN None ELSE Some(ks)

\* The call returns to its caller: its frame, and with it every local, is
\* gone; ret keeps what it returned or raised until the thread's next call.
Finish(p) ==
    /\ pc' = [pc EXCEPT ![p] = "idle"]
    /\ reqs' = [reqs EXCEPT ![p] = <<>>]
    /\ held' = [held EXCEPT ![p] = 0]
    /\ t1' = [t1 EXCEPT ![p] = 0]
    /\ rstates' = [rstates EXCEPT ![p] = <<>>]
    /\ ev' = [ev EXCEPT ![p] = None]
    /\ wi' = [wi EXCEPT ![p] = 0]
    /\ reply' = [reply EXCEPT ![p] = None]
    /\ attempt' = [attempt EXCEPT ![p] = 0]

\* The history after the states written[i] were stored for the limits rs[i].
Record(h, rs, written) ==
    [l \in DOMAIN h |-> IF \E i \in DOMAIN written : rs[i][1] = l
                        THEN Append(h[l], written[CHOOSE i \in DOMAIN written : rs[i][1] = l])
                        ELSE h[l]]

\* ------------------------------------------------------ in-memory backend
\* The constructor returned an object (it did not raise).
Constructed == cret["in_memory"] # "ValueError"

\* list.sort(key=id(req.rl)): a stable insertion sort on the lock order.
RECURSIVE Insert(_, _, _)
Insert(sorted, x, ids) ==
    IF sorted = <<>> THEN <<x>>
    ELSE IF ids[x[1]] < ids[Head(sorted)[1]] THEN <<x>> \o sorted
    ELSE <<Head(sorted)>> \o Insert(Tail(sorted), x, ids)

\* Faulty variant: the limits are taken in the caller's order.
SortUnsorted(rs, ids) == rs

\* rate_limits.sort(key=id): insertion sort by object identity.
RECURSIVE Sort(_, _)
Sort(rs, ids) == IF rs = <<>> THEN <<>> ELSE Insert(Sort(SubSeq(rs, 1, Len(rs) - 1), ids), rs[Len(rs)], ids)

\* state.get(key): the stored tuple or None.
MemGet(lname, key) == IF key \in DOMAIN state[lname] THEN Some(state[lname][key]) ELSE None

\* Faulty variant: a lock that excludes nobody.
AcquirableAlways(lname) == TRUE
\* Lock.acquire succeeds at once only on a lock nobody holds.
Acquirable(lname) == lock[lname] = "free"

\* InMemoryRateLimiter.request, lines 50-53: look the limits up (an unknown
\* name raises KeyError there and then) and sort them.
MemRequest(p, ks) ==
    /\ deployment = "local"
    /\ Constructed
    /\ pc[p] = "idle"
    /\ IF Lookup("in_memory", ks) = None
       THEN /\ ret' = [ret EXCEPT ![p] = Raise("KeyError")]
            /\ UNCHANGED <<pc, reqs, nreq>>
       ELSE /\ nreq[p] < Budget[p]
            /\ nreq' = [nreq EXCEPT ![p] = nreq[p] + 1]
            /\ ret' = [ret EXCEPT ![p] = NoRet]
            /\ reqs' = [reqs EXCEPT ![p] = Sort(Lookup("in_memory", ks)[1], id)]
            /\ pc' = [pc EXCEPT ![p] = IF Lookup("in_memory", ks)[1] = <<>> THEN "eval" ELSE "acquire"]
    /\ UNCHANGED <<shared, now, state, lock, redis, watching, dirty, held, t1, rstates, ev, wi, reply, hist, attempt>>

\* Lines 55-57: enter the next lock of the sorted list; blocks while held.
MemAcquire(p) ==
    /\ pc[p] = "acquire"
    /\ LET lname == reqs[p][held[p] + 1][1]
       IN  /\ Acquirable(lname)
           /\ lock' = [lock EXCEPT ![lname] = p]
    /\ held' = [held EXCEPT ![p] = held[p] + 1]
    /\ pc' = [pc EXCEPT ![p] = IF held[p] + 1 = Len(reqs[p]) THEN "eval" ELSE "acquire"]
    /\ UNCHANGED <<shared, now, state, redis, watching, dirty, reqs, t1, rstates, ev, wi, reply, ret, nreq, hist, attempt>>

\* Lines 59-70: sample the clock once, read each state, run the loop.
MemEvaluate(p) ==
    /\ pc[p] = "eval"
    /\ LET prior == [i \in DOMAIN reqs[p] |-> MemGet(reqs[p][i][1], reqs[p][i][2])]
           r == Evaluate(LimitsOf(rate_limits["in_memory"], reqs[p]), prior, now, 1, Zero, <<>>)
       IN  /\ t1' = [t1 EXCEPT ![p] = now]
           /\ rstates' = [rstates EXCEPT ![p] = prior]
           /\ ev' = [ev EXCEPT ![p] = Some(r)]
           /\ pc' = [pc EXCEPT ![p] = IF Written(r) = <<>> THEN "release" ELSE "write"]
    /\ UNCHANGED <<shared, now, state, lock, redis, watching, dirty, reqs, held, wi, reply, ret, nreq, hist, attempt>>

\* Lines 72-73: store the next new state.
MemWrite(p) ==
    /\ pc[p] = "write"
    /\ LET i == wi[p] + 1
           lname == reqs[p][i][1]
           key == reqs[p][i][2]
           new == Written(ev[p][1])[i]
           old == state[lname]
       IN  /\ state' = [state EXCEPT ![lname] = [k \in DOMAIN old \cup {key} |-> IF k = key THEN new ELSE old[k]]]
           /\ hist' = [hist EXCEPT ![lname] = Append(@, new)]
           /\ wi' = [wi EXCEPT ![p] = i]
           /\ pc' = [pc EXCEPT ![p] = IF i = Len(Written(ev[p][1])) \/ i = Len(reqs[p]) THEN "release" ELSE "write"]
    /\ UNCHANGED <<shared, now, lock, redis, watching, dirty, reqs, held, t1, rstates, ev, reply, ret, nreq, attempt>>

\* Faulty variant: the early return of a rejection skips the release.
MemReleaseUnlessRejected(p) ==
    /\ pc[p] = "release"
    /\ lock' = [l \in DOMAIN lock |-> IF lock[l] = p /\ ev[p][1].accepted THEN "free" ELSE lock[l]]
    /\ ret' = [ret EXCEPT ![p] = Return(IF ev[p][1].accepted THEN Accept(ev[p][1].delay) ELSE Reject)]
    /\ Finish(p)
    /\ UNCHANGED <<shared, now, state, redis, watching, dirty, nreq, hist>>
\* Leaving the with block releases every lock; then the call returns.
MemRelease(p) ==
    /\ pc[p] = "release"
    /\ lock' = [l \in DOMAIN lock |-> IF lock[l] = p THEN "free" ELSE lock[l]]
    /\ ret' = [ret EXCEPT ![p] = Return(IF ev[p][1].accepted THEN Accept(ev[p][1].delay) ELSE Reject)]
    /\ Finish(p)
    /\ UNCHANGED <<shared, now, state, redis, watching, dirty, nreq, hist>>

\* ------------------------------------------------------------ state codec
\* One IEEE double of struct.pack('<dd'), as the little-endian bytes of the
\* fixed-point number.
Pack(x) == <<x % 256, (x \div 256) % 256>>
\* Faulty variant: the bytes read in big-endian order.
UnpackBigEndian(b) == b[2] + 256 * b[1]
\* The number of struct.unpack('<dd'), from its little-endian bytes.
Unpack(b) == b[1] + 256 * b[2]

\* StructCodec.encode
encode(s) == Pack(s[1]) \o Pack(s[2])

\* Python truth value of an Optional[bytes]: None and b'' are false.
PyFalsy(raw) == raw = None \/ raw[1] = <<>>

\* StructCodec.decode
decode(raw) == IF PyFalsy(raw) THEN None ELSE Some(<<Unpack(SubSeq(raw[1], 1, 2)), Unpack(SubSeq(raw[1], 3, 4))>>)

\* Lua: struct.unpack("<dd", raw_state)
lua_decode(bytes) == <<Unpack(SubSeq(bytes, 1, 2)), Unpack(SubSeq(bytes, 3, 4))>>

\* Lua: struct.pack("<dd", timestamp, value)
lua_encode(s) == Pack(s[1]) \o Pack(s[2])

\* Python repr of a float, which json.dumps writes: the shortest decimal
\* that reads back as the same number, at most ReprDigits significant
\* digits, and ".0" after a whole number.
ReprDigits == 17

repr(x) ==
    LET y == RoundSig(x, ReprDigits)
    IN  (IF y.neg THEN <<"-">> ELSE <<>>) \o IntChars(y.ip) \o <<".">>
        \o (IF y.frac = <<>> THEN <<"0">> ELSE [i \in DOMAIN y.frac |-> DigitChars[y.frac[i] + 1]])

RECURSIVE Pow10(_)
Pow10(k) == IF k = 0 THEN 1 ELSE 10 * Pow10(k - 1)

RECURSIVE DigitsValue(_)
DigitsValue(ds) == IF ds = <<>> THEN 0 ELSE 10 * DigitsValue(SubSeq(ds, 1, Len(ds) - 1)) + ds[Len(ds)]

\* The number a decimal denotes, in units of 1/scale.
Fixed(y, scale) == ((y.ip * Pow10(Len(y.frac)) + DigitsValue(y.frac)) * scale) \div Pow10(Len(y.frac))

\* A state's timestamp (seconds) and value (units of 1/One) as numbers.
Timestamp(s) == Rat(s[1], 1)
Value(s) == Rat(s[2], One)

\* The first position of character c in cs, Len(cs) + 1 when there is none.
Index(cs, c) == IF \E i \in DOMAIN cs : cs[i] = c THEN CHOOSE i \in DOMAIN cs : cs[i] = c /\ \A j \in 1..(i - 1) : cs[j] # c ELSE Len(cs) + 1

\* The members of a JSON object's text, split at the commas.
RECURSIVE Members(_)
Members(cs) == IF cs = <<>> THEN <<>> ELSE <<SubSeq(cs, 1, Index(cs, ",") - 1)>> \o Members(SubSeq(cs, Index(cs, ",") + 1, Len(cs)))

\* json.loads / cjson.decode of an object of numbers: member name -> number.
loads(cs) ==
    LET ms == Members(SubSeq(cs, 2, Len(cs) - 1))
        name(m) == SubSeq(m, 2, Index(m, ":") - 2)
    IN  [n \in {name(ms[i]) : i \in DOMAIN ms} |->
            LET m == ms[CHOOSE i \in DOMAIN ms : name(ms[i]) = n]
            IN  float(SubSeq(m, Index(m, ":") + 1, Len(m)))]

\* JsonCodec.timestamp_key, JsonCodec.value_key
timestamp_key == <<"t">>
value_key == <<"v">>

Member(key, number) == <<"\"">> \o key \o <<"\"", ":">> \o number

\* JsonCodec.encode: json.dumps with separators (',', ':').
JsonEncode(s) == <<"{">> \o Member(timestamp_key, repr(Timestamp(s))) \o <<",">> \o Member(value_key, repr(Value(s))) \o <<"}">>

\* JsonCodec.decode
JsonDecode(raw) == IF PyFalsy(raw) THEN None ELSE Some(<<Fixed(loads(raw[1])[timestamp_key], 1), Fixed(loads(raw[1])[value_key], One)>>)

\* Lua: cjson.encode({t = timestamp, v = value}).  cjson writes a number
\* with "%.14g", as tostring does, and the members in the table's
\* iteration order, which Lua leaves open: swap tells which.
JsonLuaEncode(s, swap) ==
    IF swap THEN <<"{">> \o Member(value_key, tostring(Value(s))) \o <<",">> \o Member(timestamp_key, tostring(Timestamp(s))) \o <<"}">>
    ELSE <<"{">> \o Member(timestamp_key, tostring(Timestamp(s))) \o <<",">> \o Member(value_key, tostring(Value(s))) \o <<"}">>

\* Lua: cjson.decode(raw_state), then the two members.
JsonLuaDecode(bytes) == <<Fixed(loads(bytes)[timestamp_key], 1), Fixed(loads(bytes)[value_key], One)>>

\* get_codec: the codec of a name.
CodecNames == {"json", "struct"}
DEFAULT_CODEC == "struct"

\* self._codec.encode / decode, and the codec bodies of the Lua scripts.
CodecEncode(c, s) == IF c = "json" THEN JsonEncode(s) ELSE encode(s)
CodecDecode(c, raw) == IF c = "json" THEN JsonDecode(raw) ELSE decode(raw)
LuaEncode(c, s, swap) == IF c = "json" THEN JsonLuaEncode(s, swap) ELSE lua_encode(s)
LuaDecode(c, bytes) == IF c = "json" THEN JsonLuaDecode(bytes) ELSE lua_decode(bytes)

\* ------------------------------------------------------------ Redis store
\* The default of the constructors' key_format parameter.
DefaultKeyFormat ==
    <<"r", "e", "d", "b", "u", "c", "k", "e", "t", ":", "{", "z", "o", "n", "e", "}", ":", "{", "k", "e", "y", "}">>

\* The position of the "}" that closes the replacement field whose text
\* starts at i, braces inside it nesting; 0 when the string ends first.
RECURSIVE Close(_, _, _)
Close(cs, i, depth) ==
    IF i > Len(cs) THEN 0
    ELSE IF cs[i] = "{" THEN Close(cs, i + 1, depth + 1)
    ELSE IF cs[i] = "}" THEN (IF depth = 0 THEN i ELSE Close(cs, i + 1, depth - 1))
    ELSE Close(cs, i + 1, depth)

\* The field_name of a replacement field: its text up to "!" or ":".
FieldName(body) == SubSeq(body, 1, (IF Index(body, "!") < Index(body, ":") THEN Index(body, "!") ELSE Index(body, ":")) - 1)

\* The conversion of a replacement field's value: !r and !a put a string in
\* quotes, !s and no conversion leave it as it is.
Converted(body, value) ==
    IF Index(body, "!") < Len(body) /\ body[Index(body, "!") + 1] \in {"r", "a"} THEN "'" \o value \o "'" ELSE value

\* str.format(zone=zone, key=key) of the key format cs from position i on:
\* literal text as it is, "{{" and "}}" as one brace, each replacement field
\* as the text of the value it names.
RECURSIVE format(_, _, _, _)
format(cs, i, zone, key) ==
    IF i > Len(cs) THEN ""
    ELSE IF cs[i] \in {"{", "}"} /\ i < Len(cs) /\ cs[i + 1] = cs[i] THEN cs[i] \o format(cs, i + 2, zone, key)
    ELSE IF cs[i] = "{"
    THEN LET end == Close(cs, i + 1, 0)
             body == SubSeq(cs, i + 1, end - 1)
         IN  Converted(body, IF FieldName(body) = <<"z", "o", "n", "e">> THEN zone ELSE key) \o format(cs, end + 1, zone, key)
    ELSE cs[i] \o format(cs, i + 1, zone, key)

\* The key formats limiters are constructed with here, and the zone names
\* and keys they render.
FmtZoneKey == <<"{", "z", "o", "n", "e", "}", "{", "k", "e", "y", "}">>
FmtKeyZone == <<"{", "k", "e", "y", "}", "{", "z", "o", "n", "e", "}">>
FmtRepeated == <<"{", "z", "o", "n", "e", "}", "{", "k", "e", "y", "}", "{", "z", "o", "n", "e", "}">>
FmtConversion == <<"{", "z", "o", "n", "e", "!", "r", "}", "{", "k", "e", "y", "}">>
FmtEscaped == <<"{", "{", "{", "z", "o", "n", "e", "}", "{", "k", "e", "y", "}", "}", "}">>
AcceptedFormats == {DefaultKeyFormat, FmtZoneKey, FmtKeyZone, FmtRepeated, FmtConversion, FmtEscaped}
RenderedZones == {"z", "z1", "z2"}
RenderedKeys == {"a", "1a"}

\* str.format of one key format on each of the (zone, key) pairs of S,
\* tabulated.
RECURSIVE Tabulated(_, _)
Tabulated(fmt, S) ==
    IF S = {} THEN <<>>
    ELSE LET x == CHOOSE y \in S : TRUE
         IN  (x :> format(fmt, 1, x[1], x[2])) @@ Tabulated(fmt, S \ {x})

\* The tables of the key formats.
RECURSIVE Tables(_)
Tables(F) ==
    IF F = {} THEN <<>>
    ELSE LET fmt == CHOOSE y \in F : TRUE
         IN  (fmt :> Tabulated(fmt, RenderedZones \X RenderedKeys)) @@ Tables(F \ {fmt})

Rendered == Tables(AcceptedFormats)

\* RedisRateLimiter._redis_key: the key format of the limiter, rendered.  The
\* Redis limiters of a deployment are constructed with one key format.
RedisKey(zone, key) == Rendered[key_format["redis_tx"][1]][<<zone, key>>]

rkeysOf(cfg, rs) == [i \in DOMAIN rs |-> RedisKey(cfg[rs[i][1]].zone.name, rs[i][2])]

\* GET / one element of MGET: the value, or nil.
RedisGet(rkey) == IF rkey \in DOMAIN redis THEN Some(redis[rkey].val) ELSE None

\* Faulty variant: every key is given the expiry of the first limit's zone.
RECURSIVE SetexFirstExpiry(_, _, _, _, _)
SetexFirstExpiry(store, rkeys, limits, vals, i) ==
    IF i > Len(vals) \/ i > Len(rkeys) THEN store
    ELSE LET entry == [val |-> vals[i], ttl |-> limits[1].zone.expiry, exp |-> now + limits[1].zone.expiry]
             next == [k \in DOMAIN store \cup {rkeys[i]} |-> IF k = rkeys[i] THEN entry ELSE store[k]]
         IN  SetexFirstExpiry(next, rkeys, limits, vals, i + 1)

\* SETEX of rkeys[i] with TTL limits[i].zone.expiry for i = 1..Len(vals),
\* applied in order.
RECURSIVE Setex(_, _, _, _, _)
Setex(store, rkeys, limits, vals, i) ==
    IF i > Len(vals) \/ i > Len(rkeys) THEN store
    ELSE LET entry == [val |-> vals[i], ttl |-> limits[i].zone.expiry, exp |-> now + limits[i].zone.expiry]
             next == [k \in DOMAIN store \cup {rkeys[i]} |-> IF k = rkeys[i] THEN entry ELSE store[k]]
         IN  Setex(next, rkeys, limits, vals, i + 1)

\* Faulty variant: a write flags nobody.
TouchNobody(p, written) == dirty
\* Faulty variant: a write flags every other client, whatever it watches.
TouchEverybody(p, written) == [q \in Procs |-> q # p]
\* A write to a watched key flags every client watching it.
Touch(p, written) == [q \in Procs |-> IF q # p /\ watching[q] \cap written # {} THEN TRUE ELSE dirty[q]]

\* ---------------------------------------------------------- configuration
RedisLimiters == {"redis_tx", "redis_script"}
Limiters == {"in_memory"} \cup RedisLimiters

\* RateLimiter._validate, lines 44-45: the expiry is below the minimum.
ExpiryWarning(limit) == limit.burst + limit.delay + One > limit.zone.expiry * limit.zone.rate

\* Faulty variant: the quotient rounded down.
CeilFloor(a, b) == a \div b
\* math.ceil(a / b) for a >= 0, b > 0.
Ceil(a, b) == (a + b - 1) \div b

\* Lines 46-47: recommended = ceil((burst + delay + 1) / rate), in seconds.
Recommended(limit) == Ceil(limit.burst + limit.delay + One, limit.zone.rate)

\* Lines 48-51: what the warning text names.
Warning(lname, limit) ==
    [zone |-> limit.zone.name, limit |-> lname, expiry |-> limit.zone.expiry, recommended |-> Recommended(limit)]

\* The keyword arguments of a configure or constructor call, in call order.
Args(cfg, names) == [i \in DOMAIN names |-> <<names[i], cfg[names[i]]>>]
ArgsA == Args(CfgA, <<"k1", "k2">>)
ArgsB == Args(CfgB, <<"k2", "k1">>)
\* Two limits on zone z1: the first with too short an expiry, or the second.
ArgsDupWarnFirst == <<<<"k1", RateLimit(Zone("z1", 1, 1), 0, 0)>>, <<"k2", RateLimit(Zone("z1", 3, 2), 0, One)>>>>
ArgsDupWarnLast == <<<<"k1", RateLimit(Zone("z1", 1, 2), 0, 0)>>, <<"k2", RateLimit(Zone("z1", 1, 1), One, One)>>>>
\* One limit whose recommended expiry, 4/3 s rounded up, is not a whole quotient.
ArgsWarn == <<<<"k1", RateLimit(Zone("z1", 3, 1), One, 0)>>>>
ConfigArgs == {ArgsA, ArgsB, ArgsWarn, ArgsDupWarnFirst, ArgsDupWarnLast}
CtorArgs == ConfigArgs \cup {<<>>}
\* The configure calls made where the installation may fail: valid ones, one
\* of them with a warning, and one with two limits on a zone.
InstallArgs == {ArgsA, ArgsWarn, ArgsDupWarnFirst}

\* The dict the keyword arguments make.
ToDict(args) ==
    [n \in {args[i][1] : i \in DOMAIN args} |-> args[CHOOSE i \in DOMAIN args : args[i][1] = n][2]]

\* Faulty variant: a zone may be named by several limits.
ValidateAnyZones(args, i, zones, warnings) ==
    [error |-> "none", warnings |-> {Warning(args[k][1], args[k][2]) : k \in {j \in DOMAIN args : ExpiryWarning(args[j][2])}}]
\* RateLimiter._validate: the loop over the limits from the i-th on, with the
\* zone names seen and the warnings emitted so far.  A second limit on a zone
\* raises ValueError before its own expiry is looked at.
RECURSIVE Validate(_, _, _, _)
Validate(args, i, zones, warnings) ==
    IF i > Len(args) THEN [error |-> "none", warnings |-> warnings]
    ELSE IF args[i][2].zone.name \in zones THEN [error |-> "ValueError", warnings |-> warnings]
    ELSE Validate(args, i + 1, zones \cup {args[i][2].zone.name},
                  IF ExpiryWarning(args[i][2]) THEN warnings \cup {Warning(args[i][1], args[i][2])} ELSE warnings)

\* Faulty variant: configure may be called again.
NeverConfigured(l) == FALSE
\* RateLimiter.configure, lines 28-29.
AlreadyConfigured(l) == configured[l]

\* RateLimiter.configure.  The clients of one store are given one and the
\* same configuration.
configure(l, args) ==
    /\ deployment = "remote"
    /\ IF AlreadyConfigured(l)
       THEN /\ cret' = [cret EXCEPT ![l] = "RuntimeError"]
            /\ warned' = [warned EXCEPT ![l] = {}]
            /\ UNCHANGED <<rate_limits, configured>>
       ELSE IF Validate(args, 1, {}, {}).error # "none"
       THEN /\ cret' = [cret EXCEPT ![l] = Validate(args, 1, {}, {}).error]
            /\ warned' = [warned EXCEPT ![l] = Validate(args, 1, {}, {}).warnings]
            /\ UNCHANGED <<rate_limits, configured>>
       ELSE /\ \A m \in RedisLimiters : configured[m] => rate_limits[m] = ToDict(args)
            /\ cret' = [cret EXCEPT ![l] = "ok"]
            /\ warned' = [warned EXCEPT ![l] = Validate(args, 1, {}, {}).warnings]
            /\ rate_limits' = [rate_limits EXCEPT ![l] = ToDict(args)]
            /\ configured' = [configured EXCEPT ![l] = TRUE]
    /\ UNCHANGED <<deployment, id, version, key_format, codec, now, state, lock, redis, watching, dirty, pc, locals, ret, nreq, hist>>

\* Faulty variant: the flag is raised before the backend is given the limits.
configure_flagged(l, args) ==
    /\ deployment = "remote"
    /\ l = "redis_script"
    /\ ~AlreadyConfigured(l)
    /\ Validate(args, 1, {}, {}).error = "none"
    /\ cret' = [cret EXCEPT ![l] = "InstallError"]
    /\ warned' = [warned EXCEPT ![l] = Validate(args, 1, {}, {}).warnings]
    /\ rate_limits' = [rate_limits EXCEPT ![l] = ToDict(args)]
    /\ configured' = [configured EXCEPT ![l] = TRUE]
    /\ UNCHANGED <<deployment, id, version, key_format, codec, now, state, lock, redis, watching, dirty, pc, locals, ret, nreq, hist>>
\* RateLimiter.configure when _configure raises: the codec's lua_encode or
\* lua_decode, the template or register_script fails in
\* RedisScriptRateLimiter._configure (the base _configure is empty and cannot
\* fail).  The limits were validated and assigned at line 32; line 34 is not
\* reached.
configure_raises(l, args) ==
    /\ deployment = "remote"
    /\ l = "redis_script"
    /\ ~AlreadyConfigured(l)
    /\ Validate(args, 1, {}, {}).error = "none"
    /\ cret' = [cret EXCEPT ![l] = "InstallError"]
    /\ warned' = [warned EXCEPT ![l] = Validate(args, 1, {}, {}).warnings]
    /\ rate_limits' = [rate_limits EXCEPT ![l] = ToDict(args)]
    /\ UNCHANGED <<configured, deployment, id, version, key_format, codec, now, state, lock, redis, watching, dirty, pc, locals, ret, nreq, hist>>

\* InMemoryRateLimiter.__init__: ValueError on a second limit for a zone,
\* else the limits, each with an empty state dict and a lock.
Construct(args) ==
    IF \E i, j \in DOMAIN args : i < j /\ args[i][2].zone.name = args[j][2].zone.name
    THEN [error |-> "ValueError", limits |-> <<>>]
    ELSE [error |-> "constructed", limits |-> ToDict(args)]

\* The in-memory limiter has no configure method: the call raises
\* AttributeError and changes nothing.
MemConfigure(args) ==
    /\ deployment = "local"
    /\ Constructed
    /\ cret' = [cret EXCEPT !["in_memory"] = "AttributeError"]
    /\ UNCHANGED <<deployment, rate_limits, configured, warned, id, version, key_format, codec, now, state, lock, redis, watching, dirty,
                   pc, locals, ret, nreq, hist>>

\* RateLimiter.request and the head of _request, up to the first command
\* sent to Redis: not configured, no keys, or an unknown limit name.
\* Faulty variant: the limiter is never asked whether it is configured.
EarlyUnchecked(l, ks) ==
    IF ks = <<>> THEN Return(Accept(Zero))
    ELSE IF Lookup(l, ks) = None THEN Raise("KeyError")
    ELSE NoRet
\* RateLimiter.request and the head of _request.
Early(l, ks) ==
    IF ~configured[l] THEN Raise("RuntimeError")
    ELSE IF ks = <<>> THEN Return(Accept(Zero))
    ELSE IF Lookup(l, ks) = None THEN Raise("KeyError")
    ELSE NoRet

\* ----------------------------------------------------------- construction
\* Key formats: those of test_valid_key_format and test_invalid_key_format,
\* a stray closing brace and an attribute lookup.
FmtOpenBrace == <<"i", "n", "v", "a", "l", "i", "d", " ", "{">>
FmtNoFields == <<"n", "o", " ", "f", "i", "e", "l", "d", "s">>
FmtNoKey == <<"{", "z", "o", "n", "e", "}", " ", "n", "o", " ", "k", "e", "y">>
FmtNoZone == <<"n", "o", " ", "z", "o", "n", "e", " ", "{", "k", "e", "y", "}">>
FmtUnnamed == <<"{", "z", "o", "n", "e", "}", " ", "{", "k", "e", "y", "}", " ", "e", "x", "t", "r", "a", " ", "{", "}">>
FmtExtra == <<"{", "z", "o", "n", "e", "}", " ", "{", "k", "e", "y", "}", " ", "{", "e", "x", "t", "r", "a", "}">>
FmtPositional == <<"{", "z", "o", "n", "e", "}", " ", "{", "k", "e", "y", "}", " ", "e", "x", "t", "r", "a", " ", "{", "0", "}">>
FmtCloseBrace == <<"{", "z", "o", "n", "e", "}", "{", "k", "e", "y", "}", "}">>
FmtAttribute == <<"{", "z", "o", "n", "e", ".", "n", "a", "m", "e", "}", "{", "k", "e", "y", "}">>
KeyFormats == {DefaultKeyFormat, FmtZoneKey, FmtKeyZone, FmtRepeated, FmtConversion, FmtEscaped, FmtOpenBrace, FmtNoFields, FmtNoKey, FmtNoZone, FmtUnnamed, FmtExtra, FmtPositional, FmtCloseBrace, FmtAttribute}

\* string.Formatter().parse from position i on: the field names met, or the
\* ValueError it raises on a single brace.  "{{" and "}}" are literal text.
RECURSIVE parse(_, _)
parse(cs, i) ==
    IF i > Len(cs) THEN [error |-> FALSE, names |-> {}]
    ELSE IF cs[i] \notin {"{", "}"} THEN parse(cs, i + 1)
    ELSE IF i < Len(cs) /\ cs[i + 1] = cs[i] THEN parse(cs, i + 2)
    ELSE IF cs[i] = "}" THEN [error |-> TRUE, names |-> {}]
    ELSE IF Close(cs, i + 1, 0) = 0 THEN [error |-> TRUE, names |-> {}]
    ELSE LET end == Close(cs, i + 1, 0)
             rest == parse(cs, end + 1)
         IN  [error |-> rest.error, names |-> {FieldName(SubSeq(cs, i + 1, end - 1))} \cup rest.names]

\* expected = {'zone', 'key'}
expected == {<<"z", "o", "n", "e">>, <<"k", "e", "y">>}

\* Faulty variant: only the presence of 'zone' and 'key' is checked.
validate_key_format_present(format_string) ==
    LET parsed == parse(format_string, 1)
    IN  IF parsed.error THEN "ValueError"
        ELSE IF \E name \in expected : name \notin parsed.names THEN "ValueError"
        ELSE "none"
\* _validate_key_format: the error it raises, "none" when it returns.
validate_key_format(format_string) ==
    LET parsed == parse(format_string, 1)
        field_names == parsed.names
    IN  IF parsed.error THEN "ValueError"
        ELSE IF \E name \in expected : name \notin field_names THEN "ValueError"
        ELSE IF field_names # expected THEN "ValueError"
        ELSE "none"

\* redis_version strings a server may report.
V2_6_17 == <<"2", ".", "6", ".", "1", "7">>
V3 == <<"3">>
V3_1_9 == <<"3", ".", "1", ".", "9">>
V3_2 == <<"3", ".", "2">>
V3_2_0 == <<"3", ".", "2", ".", "0">>
V3_10 == <<"3", ".", "1", "0">>
V10_0 == <<"1", "0", ".", "0">>
V6_2_14 == <<"6", ".", "2", ".", "1", "4">>
Versions == {V2_6_17, V3, V3_1_9, V3_2, V3_2_0, V3_10, V10_0, V6_2_14}

\* str.split('.')
RECURSIVE split(_)
split(cs) == IF Index(cs, ".") > Len(cs) THEN <<cs>> ELSE <<SubSeq(cs, 1, Index(cs, ".") - 1)>> \o split(SubSeq(cs, Index(cs, ".") + 1, Len(cs)))

\* get_redis_version: tuple(map(int, info['redis_version'].split('.')))
get_redis_version(v) == LET parts == split(v) IN [i \in DOMAIN parts |-> IntOf(parts[i])]

\* Faulty variant: tuples compared by their first elements only.
TupleLessMajor(a, b) == a # <<>> /\ b # <<>> /\ a[1] < b[1]
\* Python's a < b on tuples of ints: at the first difference, else the
\* shorter one is the lesser.
RECURSIVE TupleLess(_, _)
TupleLess(a, b) ==
    IF b = <<>> THEN FALSE
    ELSE IF a = <<>> THEN TRUE
    ELSE IF a[1] # b[1] THEN a[1] < b[1]
    ELSE TupleLess(Tail(a), Tail(b))

\* MIN_REDIS_VERSION of each Redis limiter class.
MIN_REDIS_VERSION == [redis_tx |-> <<>>, redis_script |-> <<3, 2>>]

\* RedisRateLimiter._check_redis_version, called when the class declares a
\* minimum.
check_redis_version(l) ==
    IF MIN_REDIS_VERSION[l] # <<>> /\ TupleLess(get_redis_version(version), MIN_REDIS_VERSION[l]) THEN "RuntimeError" ELSE "none"

\* The codec argument: a supported name or another one.
CodecArgs == CodecNames \cup {"msgpack"}

\* The constructors of the Redis limiters: the key format is validated,
\* then the server's version checked, then the codec looked up; the first
\* error is raised and there is no object.
\* _validate_key_format on each of the key formats.
KeyFormatError == [fmt \in KeyFormats |-> validate_key_format(fmt)]

RedisConstructError(l, fmt, c) ==
    IF KeyFormatError[fmt] # "none" THEN "ValueError"
    ELSE IF check_redis_version(l) # "none" THEN "RuntimeError"
    ELSE IF c \notin CodecNames THEN "KeyError"
    ELSE "constructed"

RedisConstruct(l, fmt, c) ==
    /\ deployment = "remote"
    /\ LET outcome == RedisConstructError(l, fmt, c)
       IN  /\ cret' = [cret EXCEPT ![l] = outcome]
           /\ key_format' = [key_format EXCEPT ![l] = IF outcome = "constructed" THEN Some(fmt) ELSE None]
           /\ codec' = [codec EXCEPT ![l] = IF outcome = "constructed" THEN c ELSE "none"]
    /\ UNCHANGED <<deployment, rate_limits, configured, warned, id, version, now, state, lock, redis, watching, dirty,
                   pc, locals, ret, nreq, hist>>

\* The server's administrator upgrades or replaces the server.
Upgrade(v) ==
    /\ deployment = "remote"
    /\ version' = v
    /\ UNCHANGED <<deployment, rate_limits, configured, cret, warned, id, key_format, codec, now, state, lock, redis,
                   watching, dirty, pc, locals, ret, nreq, hist>>

\* -------------------------------------------- optimistic (WATCH/MULTI/EXEC)
\* RedisTransactionalRateLimiter._request, lines 38-47.
TxRequest(p, ks) ==
    /\ deployment = "remote"
    /\ pc[p] = "idle"
    /\ ret' = [ret EXCEPT ![p] = Early("redis_tx", ks)]
    /\ IF Early("redis_tx", ks) = NoRet
       THEN /\ nreq[p] < Budget[p]
            /\ nreq' = [nreq EXCEPT ![p] = nreq[p] + 1]
            /\ reqs' = [reqs EXCEPT ![p] = Lookup("redis_tx", ks)[1]]
            /\ pc' = [pc EXCEPT ![p] = "watch"]
       ELSE UNCHANGED <<pc, reqs, nreq>>
    /\ UNCHANGED <<shared, now, state, lock, redis, watching, dirty, held, t1, rstates, ev, wi, reply, hist, attempt>>

\* Faulty variant: the transaction is started without its watches.
TxWatchNothing(p) ==
    /\ pc[p] = "watch"
    /\ watching' = [watching EXCEPT ![p] = {}]
    /\ dirty' = [dirty EXCEPT ![p] = FALSE]
    /\ attempt' = [attempt EXCEPT ![p] = attempt[p] + 1]
    /\ pc' = [pc EXCEPT ![p] = "mget"]
    /\ UNCHANGED <<shared, now, state, lock, redis, reqs, held, t1, rstates, ev, wi, reply, ret, nreq, hist>>
\* Redis.transaction: WATCH every key of the request.
TxWatch(p) ==
    /\ pc[p] = "watch"
    /\ watching' = [watching EXCEPT ![p] = Range(rkeysOf(rate_limits["redis_tx"], reqs[p]))]
    /\ dirty' = [dirty EXCEPT ![p] = FALSE]
    /\ attempt' = [attempt EXCEPT ![p] = attempt[p] + 1]
    /\ pc' = [pc EXCEPT ![p] = "mget"]
    /\ UNCHANGED <<shared, now, state, lock, redis, reqs, held, t1, rstates, ev, wi, reply, ret, nreq, hist>>

\* tx_fn, line 49: MGET.
TxMget(p) ==
    /\ pc[p] = "mget"
    /\ rstates' = [rstates EXCEPT ![p] = [i \in DOMAIN reqs[p] |-> RedisGet(rkeysOf(rate_limits["redis_tx"], reqs[p])[i])]]
    /\ pc' = [pc EXCEPT ![p] = "time"]
    /\ UNCHANGED <<shared, now, state, lock, redis, watching, dirty, reqs, held, t1, ev, wi, reply, ret, nreq, hist, attempt>>

\* tx_fn, lines 53-67: TIME, then the evaluation loop over the decoded states.
TxTime(p) ==
    /\ pc[p] = "time"
    /\ LET prior == [i \in DOMAIN reqs[p] |-> CodecDecode(codec["redis_tx"], rstates[p][i])]
           r == Evaluate(LimitsOf(rate_limits["redis_tx"], reqs[p]), prior, now, 1, Zero, <<>>)
       IN  /\ t1' = [t1 EXCEPT ![p] = now]
           /\ ev' = [ev EXCEPT ![p] = Some(r)]
           /\ pc' = [pc EXCEPT ![p] = IF r.accepted THEN "exec" ELSE "unwatch"]
    /\ UNCHANGED <<shared, now, state, lock, redis, watching, dirty, reqs, held, rstates, wi, reply, ret, nreq, hist, attempt>>

\* tx_fn, lines 63-64: UNWATCH and return the rejection.
TxUnwatch(p) ==
    /\ pc[p] = "unwatch"
    /\ watching' = [watching EXCEPT ![p] = {}]
    /\ dirty' = [dirty EXCEPT ![p] = FALSE]
    /\ ret' = [ret EXCEPT ![p] = Return(Reject)]
    /\ Finish(p)
    /\ UNCHANGED <<shared, now, state, lock, redis, nreq, hist>>

\* tx_fn, lines 69-74 and the client's execute: MULTI, one SETEX per limit,
\* EXEC; no watched key was modified, so the transaction commits.
TxExecute(p) ==
    /\ pc[p] = "exec"
    /\ ~dirty[p]
    /\ LET cfg == rate_limits["redis_tx"]
           rkeys == rkeysOf(cfg, reqs[p])
           vals == [i \in DOMAIN Written(ev[p][1]) |-> CodecEncode(codec["redis_tx"], Written(ev[p][1])[i])]
       IN  /\ redis' = Setex(redis, rkeys, LimitsOf(cfg, reqs[p]), vals, 1)
           /\ dirty' = Touch(p, {rkeys[i] : i \in DOMAIN vals})
    /\ hist' = Record(hist, reqs[p], Written(ev[p][1]))
    /\ watching' = [watching EXCEPT ![p] = {}]
    /\ ret' = [ret EXCEPT ![p] = Return(Accept(ev[p][1].delay))]
    /\ Finish(p)
    /\ UNCHANGED <<shared, now, state, lock, nreq>>

\* Faulty variant: the WatchError is swallowed and the aborted run's response
\* is returned.
TxWatchErrorIgnored(p) ==
    /\ pc[p] = "exec"
    /\ dirty[p]
    /\ watching' = [watching EXCEPT ![p] = {}]
    /\ dirty' = [dirty EXCEPT ![p] = FALSE]
    /\ ret' = [ret EXCEPT ![p] = Return(Accept(ev[p][1].delay))]
    /\ Finish(p)
    /\ UNCHANGED <<shared, now, state, lock, redis, nreq, hist>>
\* EXEC fails with WatchError: Redis.transaction runs tx_fn again from WATCH.
TxWatchError(p) ==
    /\ pc[p] = "exec"
    /\ dirty[p]
    /\ watching' = [watching EXCEPT ![p] = {}]
    /\ dirty' = [dirty EXCEPT ![p] = FALSE]
    /\ pc' = [pc EXCEPT ![p] = "watch"]
    /\ t1' = [t1 EXCEPT ![p] = 0]
    /\ rstates' = [rstates EXCEPT ![p] = <<>>]
    /\ ev' = [ev EXCEPT ![p] = None]
    /\ UNCHANGED <<shared, now, state, lock, redis, reqs, held, wi, reply, ret, nreq, hist, attempt>>

\* Faulty variant: no pipeline.multi(), so that each SETEX is carried out as
\* it is issued and a failure after the first leaves that one written.
CarriedOutNoMulti(store, rkeys, limits, vals) == Setex(store, rkeys, limits, SubSeq(vals, 1, 1), 1)
\* What the store has carried out of the commands issued after
\* pipeline.multi() when the transaction ends without EXEC: nothing, the
\* SETEXs are queued and the queue goes with its connection.
CarriedOut(store, rkeys, limits, vals) == store

\* What can interrupt a call from outside tx_fn: the client raising for a
\* failed connection or a timeout, or the caller's cancellation.
Interruptions == {"ConnectionError", "TimeoutError", "Cancelled"}

\* The command thread p's transaction is at (WATCH, MGET, TIME, UNWATCH, or
\* the MULTI ... EXEC block before the server has run EXEC) is interrupted:
\* neither tx_fn nor _request catches anything, and Redis.transaction
\* catches WatchError only, so the call raises; the connection is reset,
\* which ends its WATCH.
TxFail(p, exc) ==
    /\ pc[p] \in {"watch", "mget", "time", "unwatch", "exec"}
    /\ LET cfg == rate_limits["redis_tx"]
           vals == [i \in DOMAIN Written(ev[p][1]) |-> CodecEncode(codec["redis_tx"], Written(ev[p][1])[i])]
       IN  redis' = IF pc[p] = "exec" THEN CarriedOut(redis, rkeysOf(cfg, reqs[p]), LimitsOf(cfg, reqs[p]), vals) ELSE redis
    /\ watching' = [watching EXCEPT ![p] = {}]
    /\ dirty' = [dirty EXCEPT ![p] = FALSE]
    /\ ret' = [ret EXCEPT ![p] = Raise(exc)]
    /\ Finish(p)
    /\ UNCHANGED <<shared, now, state, lock, nreq, hist>>

\* ------------------------------------------------------ scripted (Lua)
\* Lua truth value of a reply element: only nil (and false) is false; a
\* zero-length string is true.
LuaFalsy(raw) == raw = None

\* The first element of rstates the Lua codec.decode cannot decode (a
\* zero-length string passes `if rstate`, and struct.unpack or cjson.decode
\* raise on it), or Len(raw) + 1.
Undecodable(raw) ==
    LET bad == {i \in DOMAIN raw : ~LuaFalsy(raw[i]) /\ raw[i][1] = <<>>}
    IN  IF bad = {} THEN Len(raw) + 1 ELSE CHOOSE i \in bad : \A j \in bad : i <= j

\* RedisScriptRateLimiter._request, lines 119-130, and LUA_TEMPLATE run by
\* the server in one step: MGET, TIME, the loop, the SETEXs, the reply.  A
\* script that raises writes nothing and the call raises ResponseError.
ScriptRequest(p, ks) ==
    /\ deployment = "remote"
    /\ pc[p] = "idle"
    /\ ret' = [ret EXCEPT ![p] = Early("redis_script", ks)]
    /\ IF Early("redis_script", ks) = NoRet
       THEN LET cfg == rate_limits["redis_script"]
                rs == Lookup("redis_script", ks)[1]
                rkeys == rkeysOf(cfg, rs)
                raw == [i \in DOMAIN rs |-> RedisGet(rkeys[i])]
                n == Undecodable(raw) - 1
                prior == [i \in 1..n |-> IF ~LuaFalsy(raw[i]) THEN Some(LuaDecode(codec["redis_script"], raw[i][1])) ELSE None]
                r == Evaluate(SubSeq(LimitsOf(cfg, rs), 1, n), prior, now, 1, Zero, <<>>)
                raises == r.accepted /\ n < Len(rs)
            IN  \E swap \in IF codec["redis_script"] = "json" /\ ~raises /\ r.accepted THEN BOOLEAN ELSE {FALSE} :
                LET vals == IF raises THEN <<>> ELSE [i \in DOMAIN Written(r) |-> LuaEncode(codec["redis_script"], Written(r)[i], swap)]
                IN  /\ nreq[p] < Budget[p]
                    /\ nreq' = [nreq EXCEPT ![p] = nreq[p] + 1]
                    /\ reqs' = [reqs EXCEPT ![p] = rs]
                    /\ rstates' = [rstates EXCEPT ![p] = raw]
                    /\ t1' = [t1 EXCEPT ![p] = now]
                    /\ ev' = [ev EXCEPT ![p] = IF raises THEN None ELSE Some(r)]
                    /\ redis' = Setex(redis, rkeys, LimitsOf(cfg, rs), vals, 1)
                    /\ dirty' = Touch(p, {rkeys[i] : i \in DOMAIN vals})
                    /\ hist' = Record(hist, rs, IF raises THEN <<>> ELSE Written(r))
                    /\ reply' = [reply EXCEPT ![p] = IF r.accepted /\ ~raises THEN Some(tostring(r.delay)) ELSE None]
                    /\ pc' = [pc EXCEPT ![p] = IF raises THEN "error" ELSE "reply"]
       ELSE UNCHANGED <<pc, reqs, rstates, t1, ev, redis, dirty, reply, nreq, hist>>
    /\ UNCHANGED <<shared, now, state, lock, watching, held, wi, attempt>>

\* Lines 131-134: a reply that is true in Python is an acceptance.
ScriptReturn(p) ==
    /\ pc[p] = "reply"
    /\ ret' = [ret EXCEPT ![p] = Return(IF ~PyFalsy(reply[p]) THEN Accept(float(reply[p][1])) ELSE Reject)]
    /\ Finish(p)
    /\ UNCHANGED <<shared, now, state, lock, redis, watching, dirty, nreq, hist>>

\* Line 130: the script raised; redis-py raises ResponseError from the call.
ScriptRaise(p) ==
    /\ pc[p] = "error"
    /\ ret' = [ret EXCEPT ![p] = Raise("ResponseError")]
    /\ Finish(p)
    /\ UNCHANGED <<shared, now, state, lock, redis, watching, dirty, nreq, hist>>

\* ------------------------------------------------------------- get_state
ZoneNames == {"z1", "z2"}

\* RedisTransactionalRateLimiter._get_state: GET, then the codec's decode.
TxGetState(p, zname, key) ==
    /\ deployment = "remote"
    /\ pc[p] = "idle"
    /\ ret' = [ret EXCEPT ![p] = ReturnState(CodecDecode(codec["redis_tx"], RedisGet(RedisKey(zname, key))))]
    /\ UNCHANGED <<shared, now, state, lock, redis, watching, dirty, pc, locals, nreq, hist>>

\* RedisScriptRateLimiter._get_state and LUA_GET_TEMPLATE: GET, the Lua
\* decode, two tostring()s, and float() of each in the client.
ScriptGetState(p, zname, key) ==
    /\ deployment = "remote"
    /\ pc[p] = "idle"
    /\ configured["redis_script"]
    /\ LET rstate == RedisGet(RedisKey(zname, key))
           s == LuaDecode(codec["redis_script"], rstate[1])
       IN  ret' = [ret EXCEPT ![p] =
                      IF LuaFalsy(rstate) THEN ReturnState(None)
                      ELSE IF rstate[1] = <<>> THEN Raise("ResponseError")
                      ELSE ReturnState(Some(<<Fixed(float(tostring(Timestamp(s))), 1), Fixed(float(tostring(Value(s))), One)>>))]
    /\ UNCHANGED <<shared, now, state, lock, redis, watching, dirty, pc, locals, nreq, hist>>

\* Another client of the store sets a limiter's key to a zero-length value.
ForeignSet(rkey) ==
    /\ deployment = "remote"
    /\ RedisGet(rkey) # Some(<<>>)
    /\ redis' = [k \in DOMAIN redis \cup {rkey} |->
                    IF k = rkey THEN [val |-> <<>>, ttl |-> MaxTime + 1, exp |-> now + MaxTime + 1] ELSE redis[k]]
    /\ dirty' = [q \in Procs |-> IF rkey \in watching[q] THEN TRUE ELSE dirty[q]]
    /\ UNCHANGED <<shared, now, state, lock, watching, pc, locals, ret, nreq, hist>>

\* ------------------------------------------------------------------ clock
\* One second passes; Redis drops the keys whose TTL has run out.
Tick ==
    /\ now < MaxTime
    /\ now' = now + 1
    /\ redis' = [k \in {x \in DOMAIN redis : redis[x].exp > now + 1} |-> redis[k]]
    /\ UNCHANGED <<shared, state, lock, watching, dirty, pc, locals, ret, nreq, hist>>

\* ---------------------------------------------------------- specification
LockOrders == {f \in [LNames -> 1..Cardinality(LNames)] : \A a, b \in LNames : a # b => f[a] # f[b]}

Idle ==
    /\ now = 0
    /\ state = [l \in LNames |-> <<>>]
    /\ lock = [l \in LNames |-> "free"]
    /\ redis = <<>>
    /\ watching = [p \in Procs |-> {}]
    /\ dirty = [p \in Procs |-> FALSE]
    /\ pc = [p \in Procs |-> "idle"]
    /\ reqs = [p \in Procs |-> <<>>]
    /\ held = [p \in Procs |-> 0]
    /\ t1 = [p \in Procs |-> 0]
    /\ rstates = [p \in Procs |-> <<>>]
    /\ ev = [p \in Procs |-> None]
    /\ wi = [p \in Procs |-> 0]
    /\ reply = [p \in Procs |-> None]
    /\ attempt = [p \in Procs |-> 0]
    /\ ret = [p \in Procs |-> NoRet]
    /\ nreq = [p \in Procs |-> 0]
    /\ hist = [l \in LNames |-> <<>>]

\* The Redis limiters constructed with the default key format and codec, on
\* a server recent enough for both.
Defaults ==
    /\ version = <<"6", ".", "2", ".", "1", "4">>
    /\ key_format = [l \in RedisLimiters |-> Some(DefaultKeyFormat)]
    /\ codec = [l \in RedisLimiters |-> DEFAULT_CODEC]

\* The limiters under load: constructed and, each Redis limiter by one
\* successful configure call, configured with the same limits.
Init ==
    /\ deployment \in {"local", "remote"}
    /\ rate_limits \in {[l \in Limiters |-> cfg] : cfg \in {c \in Configs : ValidConfig(c)}}
    /\ configured = [l \in RedisLimiters |-> TRUE]
    /\ cret = [l \in Limiters |-> IF l \in RedisLimiters THEN "ok" ELSE "constructed"]
    /\ warned = [l \in Limiters |->
                    IF l \in RedisLimiters
                    THEN {Warning(n, rate_limits[l][n]) : n \in {m \in LNames : ExpiryWarning(rate_limits[l][m])}}
                    ELSE {}]
    /\ id \in IF deployment = "local" THEN LockOrders ELSE {CHOOSE f \in LockOrders : TRUE}
    /\ Defaults
    /\ Idle

\* The limiters as constructed, before any configure call: the Redis
\* limiters unconfigured, the in-memory limiter with its constructor's limits.
InitLifecycle ==
    /\ deployment \in {"local", "remote"}
    /\ \E args \in IF deployment = "local" THEN CtorArgs ELSE {<<>>} :
          /\ rate_limits = [l \in Limiters |-> IF l = "in_memory" THEN Construct(args).limits ELSE <<>>]
          /\ cret = [l \in Limiters |-> IF l = "in_memory" THEN Construct(args).error ELSE "none"]
    /\ configured = [l \in RedisLimiters |-> FALSE]
    /\ warned = [l \in Limiters |-> {}]
    /\ id = CHOOSE f \in LockOrders : TRUE
    /\ Defaults
    /\ Idle

Next ==
    \/ Tick
    \/ \E p \in Procs, ks \in Requests : MemRequest(p, ks)
    \/ \E p \in Procs : MemAcquire(p)
    \/ \E p \in Procs : MemEvaluate(p)
    \/ \E p \in Procs : MemWrite(p)
    \/ \E p \in Procs : MemRelease(p)
    \/ \E p \in Procs, ks \in Requests : TxRequest(p, ks)
    \/ \E p \in Procs : TxWatch(p)
    \/ \E p \in Procs : TxMget(p)
    \/ \E p \in Procs : TxTime(p)
    \/ \E p \in Procs : TxUnwatch(p)
    \/ \E p \in Procs : TxExecute(p)
    \/ \E p \in Procs : TxWatchError(p)
    \/ \E p \in Procs, ks \in Requests : ScriptRequest(p, ks)
    \/ \E p \in Procs : ScriptReturn(p)

Spec == Init /\ [][Next]_vars

\* The in-memory limiter alone, its threads scheduled fairly: a thread that
\* can take the next step of its request (a blocked Lock.acquire once the
\* lock is free) eventually takes it.
InitLocal == Init /\ deployment = "local"

MemStep(p) == MemAcquire(p) \/ MemEvaluate(p) \/ MemWrite(p) \/ MemRelease(p)

NextLocal ==
    \/ Tick
    \/ \E p \in Procs, ks \in LocalRequests : MemRequest(p, ks)
    \/ \E p \in Procs : MemAcquire(p)
    \/ \E p \in Procs : MemEvaluate(p)
    \/ \E p \in Procs : MemWrite(p)
    \/ \E p \in Procs : MemRelease(p)

SpecLocal == InitLocal /\ [][NextLocal]_vars /\ \A p \in Procs : WF_vars(MemStep(p))

\* The lifecycle of the limiters: configure calls, and one thread's requests.
LifeProcs == {"p1"}

\* One thread alone, in every backend: the requests follow one another.
NextSerial ==
    \/ Tick
    \/ \E p \in LifeProcs, ks \in Requests : MemRequest(p, ks)
    \/ \E p \in LifeProcs : MemAcquire(p)
    \/ \E p \in LifeProcs : MemEvaluate(p)
    \/ \E p \in LifeProcs : MemWrite(p)
    \/ \E p \in LifeProcs : MemRelease(p)
    \/ \E p \in LifeProcs, ks \in Requests : TxRequest(p, ks)
    \/ \E p \in LifeProcs : TxWatch(p)
    \/ \E p \in LifeProcs : TxMget(p)
    \/ \E p \in LifeProcs : TxTime(p)
    \/ \E p \in LifeProcs : TxUnwatch(p)
    \/ \E p \in LifeProcs : TxExecute(p)
    \/ \E p \in LifeProcs, ks \in Requests : ScriptRequest(p, ks)
    \/ \E p \in LifeProcs : ScriptReturn(p)

SpecSerial == Init /\ [][NextSerial]_vars

NextRace ==
    \/ Tick
    \/ \E p \in Procs, ks \in RaceRequests : MemRequest(p, ks)
    \/ \E p \in Procs : MemAcquire(p)
    \/ \E p \in Procs : MemEvaluate(p)
    \/ \E p \in Procs : MemWrite(p)
    \/ \E p \in Procs : MemRelease(p)
    \/ \E p \in Procs, ks \in RaceRequests : TxRequest(p, ks)
    \/ \E p \in Procs : TxWatch(p)
    \/ \E p \in Procs : TxMget(p)
    \/ \E p \in Procs : TxTime(p)
    \/ \E p \in Procs : TxUnwatch(p)
    \/ \E p \in Procs : TxExecute(p)
    \/ \E p \in Procs : TxWatchError(p)
    \/ \E p \in Procs, ks \in RaceRequests : ScriptRequest(p, ks)
    \/ \E p \in Procs : ScriptReturn(p)

SpecRace == Init /\ [][NextRace]_vars

NextLifecycle ==
    \/ Tick
    \/ \E l \in RedisLimiters, args \in ConfigArgs : configure(l, args)
    \/ \E args \in ConfigArgs : MemConfigure(args)
    \/ \E p \in LifeProcs, ks \in LifeRequests : MemRequest(p, ks)
    \/ \E p \in LifeProcs : MemAcquire(p)
    \/ \E p \in LifeProcs : MemEvaluate(p)
    \/ \E p \in LifeProcs : MemWrite(p)
    \/ \E p \in LifeProcs : MemRelease(p)
    \/ \E p \in LifeProcs, ks \in LifeRequests : TxRequest(p, ks)
    \/ \E p \in LifeProcs : TxWatch(p)
    \/ \E p \in LifeProcs : TxMget(p)
    \/ \E p \in LifeProcs : TxTime(p)
    \/ \E p \in LifeProcs : TxUnwatch(p)
    \/ \E p \in LifeProcs : TxExecute(p)
    \/ \E p \in LifeProcs, ks \in LifeRequests : ScriptRequest(p, ks)
    \/ \E p \in LifeProcs : ScriptReturn(p)

SpecLifecycle == InitLifecycle /\ [][NextLifecycle]_vars

\* The Redis limiters from construction on, with configure calls that may
\* fail in the backend.
InitInstall == InitLifecycle /\ deployment = "remote"

NextInstall ==
    \/ Tick
    \/ \E l \in RedisLimiters, args \in InstallArgs : configure(l, args)
    \/ \E l \in RedisLimiters, args \in InstallArgs : configure_raises(l, args)
    \/ \E p \in LifeProcs, ks \in LifeRequests : TxRequest(p, ks)
    \/ \E p \in LifeProcs : TxWatch(p)
    \/ \E p \in LifeProcs : TxMget(p)
    \/ \E p \in LifeProcs : TxTime(p)
    \/ \E p \in LifeProcs : TxUnwatch(p)
    \/ \E p \in LifeProcs : TxExecute(p)
    \/ \E p \in LifeProcs, ks \in LifeRequests : ScriptRequest(p, ks)
    \/ \E p \in LifeProcs : ScriptReturn(p)

SpecInstall == InitInstall /\ [][NextInstall]_vars

\* The optimistic limiter under load on a connection that may fail, and
\* with callers that may be cancelled.
InitFaulty == Init /\ deployment = "remote"

NextFaulty ==
    \/ Tick
    \/ \E p \in Procs, ks \in RaceRequests : TxRequest(p, ks)
    \/ \E p \in Procs : TxWatch(p)
    \/ \E p \in Procs : TxMget(p)
    \/ \E p \in Procs : TxTime(p)
    \/ \E p \in Procs : TxUnwatch(p)
    \/ \E p \in Procs : TxExecute(p)
    \/ \E p \in Procs : TxWatchError(p)
    \/ \E p \in Procs, exc \in Interruptions : TxFail(p, exc)

SpecFaulty == InitFaulty /\ [][NextFaulty]_vars

\* The optimistic limiter alone under a fair scheduler: a thread whose
\* transaction has a next command to send eventually sends it and gets the
\* server's reply.
InitOptimistic == Init /\ deployment = "remote"

TxStep(p) == TxWatch(p) \/ TxMget(p) \/ TxTime(p) \/ TxUnwatch(p) \/ TxExecute(p) \/ TxWatchError(p)

NextOptimistic ==
    \/ Tick
    \/ \E p \in Procs, ks \in RaceRequests : TxRequest(p, ks)
    \/ \E p \in Procs : TxWatch(p)
    \/ \E p \in Procs : TxMget(p)
    \/ \E p \in Procs : TxTime(p)
    \/ \E p \in Procs : TxUnwatch(p)
    \/ \E p \in Procs : TxExecute(p)
    \/ \E p \in Procs : TxWatchError(p)

SpecOptimistic == InitOptimistic /\ [][NextOptimistic]_vars /\ \A p \in Procs : WF_vars(TxStep(p))

\* Construction: a server of some version, and Redis limiters constructed,
\* and constructed anew, with key formats and codecs of the caller's choice.
InitConstruct ==
    /\ deployment = "remote"
    /\ version \in Versions
    /\ rate_limits = [l \in Limiters |-> <<>>]
    /\ configured = [l \in RedisLimiters |-> FALSE]
    /\ cret = [l \in Limiters |-> "none"]
    /\ warned = [l \in Limiters |-> {}]
    /\ id = CHOOSE f \in LockOrders : TRUE
    /\ key_format = [l \in RedisLimiters |-> None]
    /\ codec = [l \in RedisLimiters |-> "none"]
    /\ Idle

NextConstruct ==
    \/ \E l \in RedisLimiters, fmt \in KeyFormats, c \in CodecArgs : RedisConstruct(l, fmt, c)
    \/ \E v \in Versions : Upgrade(v)

SpecConstruct == InitConstruct /\ [][NextConstruct]_vars

\* The codec layer: the Redis limiters constructed with either codec (the
\* same for both, as clients of one store are), one thread's requests and
\* get_state calls, and a foreign client that leaves zero-length values.
InitCodec ==
    /\ deployment = "remote"
    /\ rate_limits = [l \in Limiters |-> CfgA]
    /\ configured = [l \in RedisLimiters |-> TRUE]
    /\ cret = [l \in Limiters |-> IF l \in RedisLimiters THEN "ok" ELSE "constructed"]
    /\ warned = [l \in Limiters |->
                    IF l \in RedisLimiters
                    THEN {Warning(n, rate_limits[l][n]) : n \in {m \in LNames : ExpiryWarning(rate_limits[l][m])}}
                    ELSE {}]
    /\ id = CHOOSE f \in LockOrders : TRUE
    /\ version = <<"6", ".", "2", ".", "1", "4">>
    /\ key_format = [l \in RedisLimiters |-> Some(DefaultKeyFormat)]
    /\ codec \in {[l \in RedisLimiters |-> c] : c \in CodecNames}
    /\ Idle

NextCodec ==
    \/ Tick
    \/ \E z \in ZoneNames, k \in Keys : ForeignSet(RedisKey(z, k))
    \/ \E p \in LifeProcs, z \in ZoneNames, k \in Keys : TxGetState(p, z, k)
    \/ \E p \in LifeProcs, z \in ZoneNames, k \in Keys : ScriptGetState(p, z, k)
    \/ \E p \in LifeProcs, ks \in RaceRequests : TxRequest(p, ks)
    \/ \E p \in LifeProcs : TxWatch(p)
    \/ \E p \in LifeProcs : TxMget(p)
    \/ \E p \in LifeProcs : TxTime(p)
    \/ \E p \in LifeProcs : TxUnwatch(p)
    \/ \E p \in LifeProcs : TxExecute(p)
    \/ \E p \in LifeProcs : TxWatchError(p)
    \/ \E p \in LifeProcs, ks \in RaceRequests : ScriptRequest(p, ks)
    \/ \E p \in LifeProcs : ScriptReturn(p)
    \/ \E p \in LifeProcs : ScriptRaise(p)

SpecCodec == InitCodec /\ [][NextCodec]_vars

\* Key formats: the Redis limiters constructed with one of the accepted key
\* formats, configured with limits on the zones 'z' and 'z1', and one
\* thread's requests with the keys 'a' and '1a'.
CfgKeys == [k1 |-> RateLimit(Zone("z", 1, 2), 0, 0), k2 |-> RateLimit(Zone("z1", 3, 2), 0, One)]

KeyRequests ==
    {ks \in UNION {[1..n -> LNames \X RenderedKeys] : n \in 0..Cardinality(LNames)} : \A i, j \in DOMAIN ks : i # j => ks[i][1] # ks[j][1]}

InitKeys ==
    /\ deployment = "remote"
    /\ rate_limits = [l \in Limiters |-> CfgKeys]
    /\ configured = [l \in RedisLimiters |-> TRUE]
    /\ cret = [l \in Limiters |-> IF l \in RedisLimiters THEN "ok" ELSE "constructed"]
    /\ warned = [l \in Limiters |-> {}]
    /\ id = CHOOSE f \in LockOrders : TRUE
    /\ version = <<"6", ".", "2", ".", "1", "4">>
    /\ key_format \in {[l \in RedisLimiters |-> Some(fmt)] : fmt \in AcceptedFormats}
    /\ codec = [l \in RedisLimiters |-> DEFAULT_CODEC]
    /\ Idle

NextKeys ==
    \/ Tick
    \/ \E p \in LifeProcs, ks \in KeyRequests : TxRequest(p, ks)
    \/ \E p \in LifeProcs : TxWatch(p)
    \/ \E p \in LifeProcs : TxMget(p)
    \/ \E p \in LifeProcs : TxTime(p)
    \/ \E p \in LifeProcs : TxUnwatch(p)
    \/ \E p \in LifeProcs : TxExecute(p)
    \/ \E p \in LifeProcs, ks \in KeyRequests : ScriptRequest(p, ks)
    \/ \E p \in LifeProcs : ScriptReturn(p)

SpecKeys == InitKeys /\ [][NextKeys]_vars

\* ------------------------------------------------------------- properties
\* Which limiter thread p is inside, read off its position.
Limiter(p) ==
    IF pc[p] \in {"acquire", "eval", "write", "release"} THEN "in_memory"
    ELSE IF pc[p] \in {"watch", "mget", "time", "exec", "unwatch"} THEN "redis_tx"
    ELSE IF pc[p] \in {"reply", "error"} THEN "redis_script"
    ELSE "none"

\* Thread p takes a step of its request.
StepOf(p) == pc'[p] # pc[p] \/ wi'[p] # wi[p] \/ held'[p] # held[p] \/ ret'[p] # ret[p]

\* The states thread p read for its limits, as (timestamp, value) or None.
PriorStates(p) ==
    [i \in DOMAIN reqs[p] |-> IF Limiter(p) = "in_memory" \/ rstates[p][i] = None THEN rstates[p][i]
                              ELSE Some(lua_decode(rstates[p][i][1]))]

\* One limit judged on its own, as the specification words it: the new
\* value v1, whether v1 exceeds burst + delay + 1, and the delay it asks.
OwnValue(limit, s, t) ==
    LET t0 == IF s = None THEN t ELSE s[1][1]
        v0 == IF s = None THEN 0 ELSE s[1][2]
        left == v0 - (t - t0) * limit.zone.rate
    IN  (IF left > 0 THEN left ELSE 0) + One

OwnReject(limit, s, t) == OwnValue(limit, s, t) > limit.burst + limit.delay + One

OwnDelay(limit, s, t) ==
    IF OwnValue(limit, s, t) <= limit.burst + One THEN Zero
    ELSE Rat(OwnValue(limit, s, t) - limit.burst - One, limit.zone.rate)

Decided(p) == ev[p] # None
Rejected(p) == ev[p] # None /\ ~ev[p][1].accepted
Limits(p) == LimitsOf(rate_limits[Limiter(p)], reqs[p])
SomeLimitRejects(p) == \E i \in DOMAIN reqs[p] : OwnReject(Limits(p)[i], PriorStates(p)[i], t1[p])

\* C1: in every backend, a request one of whose limits rejects is rejected
\* as a whole, and no step of it changes any stored state: neither the
\* in-memory dicts nor the Redis keyspace (values and TTLs) move, also not for
\* the limits evaluated, and found acceptable, before the rejecting one.
C1_RejectWritesNothing ==
    [][\A p \in Procs : StepOf(p) =>
        /\ (Decided(p)' /\ SomeLimitRejects(p)') => Rejected(p)'
        /\ (Rejected(p) \/ Rejected(p)') => (state' = state /\ redis' = redis)
        /\ (Rejected(p) /\ pc'[p] = "idle") => ret'[p] = Return(Response(FALSE, None))]_vars

\* A request is rejected by its second limit after the first one had
\* accepted, while the store holds state.
C1_Witness ==
    \E p \in Procs :
        /\ pc[p] \in {"unwatch", "reply"} /\ Rejected(p) /\ Len(ev[p][1].states) >= 1
        /\ redis # <<>>

\* The same in the in-memory limiter, about to release its locks.
C1_WitnessLocal ==
    \E p \in Procs : pc[p] = "release" /\ Rejected(p) /\ Len(ev[p][1].states) >= 1

\* The stored state of a request's (limit name, key), as (timestamp, value).
StoredIn(dicts, keyspace, pair) ==
    IF deployment = "local"
    THEN IF pair[2] \in DOMAIN dicts[pair[1]] THEN Some(dicts[pair[1]][pair[2]]) ELSE None
    ELSE LET rkey == RedisKey(rate_limits["redis_tx"][pair[1]].zone.name, pair[2])
         IN  IF rkey \in DOMAIN keyspace THEN Some(lua_decode(keyspace[rkey].val)) ELSE None

Stored(pair) == StoredIn(state, redis, pair)

Accepted(p) == ev[p] # None /\ ev[p][1].accepted
Single(p) == Decided(p) /\ Len(reqs[p]) = 1

\* What the claim expects of a decided single-limit request: v1 of the
\* claim's formula, decision and delay by its three bands, new state (t1, v1).
C2_Verdict(p) ==
    LET limit == Limits(p)[1]
        v1 == OwnValue(limit, PriorStates(p)[1], t1[p])
        r == ev[p][1]
    IN  /\ (r.accepted /\ RatEq(r.delay, Zero)) <=> v1 <= limit.burst + One
        /\ (r.accepted /\ RatLess(Zero, r.delay)) <=> (limit.burst + One < v1 /\ v1 <= limit.burst + limit.delay + One)
        /\ r.accepted => RatEq(r.delay, IF v1 <= limit.burst + One THEN Zero ELSE Rat(v1 - limit.burst - One, limit.zone.rate))
        /\ ~r.accepted <=> v1 > limit.burst + limit.delay + One
        /\ r.accepted => r.states = <<(<<t1[p], v1>>)>>

C2_NewState(p) == <<t1[p], OwnValue(Limits(p)[1], PriorStates(p)[1], t1[p])>>

\* C2: a single limit with prior state (t0, v0), or none, evaluated at t1
\* yields v1 = max(v0 - (t1 - t0)*rate, 0) + 1; it accepts with delay 0 iff
\* v1 <= burst + 1, accepts with delay (v1 - burst - 1)/rate iff
\* burst + 1 < v1 <= burst + delay + 1, rejects iff v1 > burst + delay + 1;
\* and the step that writes for an accepted request stores exactly (t1, v1)
\* (in memory the key still holds it when the locks are released).
C2_SingleLimit ==
    [][\A p \in Procs :
        /\ Single(p)' => C2_Verdict(p)'
        /\ (Single(p)' /\ Accepted(p)' /\ pc'[p] = "release") => Stored(reqs[p][1])' = Some(C2_NewState(p))'
        /\ (StepOf(p) /\ (state' # state \/ redis' # redis)) =>
              /\ (Single(p) /\ Accepted(p)) => StoredIn(state', redis', reqs[p][1]) = Some(C2_NewState(p))
              /\ (Single(p)' /\ Accepted(p)') => (Stored(reqs[p][1]) = Some(C2_NewState(p)))'
              /\ (Single(p) /\ Accepted(p)) \/ (Single(p)' /\ Accepted(p)') \/ ~((Single(p) \/ Single(p)'))]_vars

\* A single-limit request is accepted on a bucket that had drained since
\* its last write.
C2_Witness ==
    \E p \in Procs :
        /\ Single(p) /\ Accepted(p)
        /\ PriorStates(p)[1] # None /\ PriorStates(p)[1][1][1] < t1[p]
        /\ pc[p] \in {"release", "reply"}

\* max(0, delay_1, ..., delay_N) over the limits of p's request, each
\* delay_i from the limit's own state, rate, burst and delay: no order enters.
MaxOwnDelay(p) ==
    LET ds == {Zero} \cup {OwnDelay(Limits(p)[i], PriorStates(p)[i], t1[p]) : i \in DOMAIN reqs[p]}
    IN  CHOOSE d \in ds : \A e \in ds : ~RatLess(d, e)

ReturnsDelay(r, d) == r.kind = "return" /\ r.value.accepted /\ r.value.delay # None /\ NumEq(r.value.delay[1], d)

\* C3: the delay an accepted request returns equals max(0, delay_1, ...,
\* delay_N) of the per-limit delays, whatever the order of evaluation.
C3_ReturnedDelayIsMax ==
    [][\A p \in Procs : (StepOf(p) /\ Accepted(p) /\ pc'[p] = "idle") => ReturnsDelay(ret'[p], MaxOwnDelay(p))]_vars

\* What does hold: the loop of every backend arrives at that maximum, and the
\* in-memory and the optimistic limiter return it unchanged; the scripted
\* one returns what float() reads back from the script's tostring(delay).
C3_ComputedDelayIsMax ==
    [][\A p \in Procs :
        /\ Accepted(p)' => RatEq(ev[p][1].delay, MaxOwnDelay(p))'
        /\ (StepOf(p) /\ Accepted(p) /\ pc'[p] = "idle" /\ Limiter(p) # "redis_script") => ReturnsDelay(ret'[p], MaxOwnDelay(p))
        /\ (StepOf(p) /\ Accepted(p) /\ pc'[p] = "idle" /\ Limiter(p) = "redis_script") => ReturnsDelay(ret'[p], RoundSig(MaxOwnDelay(p), SigDigits))]_vars

\* The scripted limiter is about to return a delay that two limits ask for
\* in different amounts.
C3_Witness ==
    \E p \in Procs :
        /\ pc[p] = "reply" /\ Accepted(p) /\ Len(reqs[p]) = 2
        /\ RatLess(Zero, OwnDelay(Limits(p)[1], PriorStates(p)[1], t1[p]))
        /\ ~RatEq(OwnDelay(Limits(p)[1], PriorStates(p)[1], t1[p]), OwnDelay(Limits(p)[2], PriorStates(p)[2], t1[p]))

\* The new state (t1, v1_i) the claim expects for each limit of the request.
C4_NewStates(p) == [i \in DOMAIN reqs[p] |-> <<t1[p], OwnValue(Limits(p)[i], PriorStates(p)[i], t1[p])>>]

Names(rs) == {rs[i][1] : i \in DOMAIN rs}

\* Thread p has stored some, not yet all, of its new states.
Partial(p) == pc[p] = "write" /\ wi[p] >= 1

\* C4: an accepted request writes a new state for each of its N limits,
\* each (t1, v1_i) with the one timestamp of the request; in Redis the N
\* SETEXs take effect in one step, and in memory no thread reads a key of a
\* request that has stored only some of its states (when its locks are
\* released, all N are in place).
C4_AllOrNothing ==
    [][\A p \in Procs :
        /\ Accepted(p)' => (ev[p][1].states = C4_NewStates(p))'
        /\ (Accepted(p)' /\ pc'[p] = "release") => (\A i \in DOMAIN reqs[p] : Stored(reqs[p][i]) = Some(C4_NewStates(p)[i]))'
        /\ (StepOf(p) /\ redis' # redis) =>
              \/ Accepted(p) /\ \A i \in DOMAIN reqs[p] : StoredIn(state', redis', reqs[p][i]) = Some(C4_NewStates(p)[i])
              \/ (Accepted(p) /\ \A i \in DOMAIN reqs[p] : Stored(reqs[p][i]) = Some(C4_NewStates(p)[i]))'
        /\ (pc[p] = "eval" /\ pc'[p] # "eval") => \A q \in Procs \ {p} : Partial(q) => Names(reqs[q]) \cap Names(reqs[p]) = {}]_vars

\* A thread has stored the first of its two states while another waits for
\* one of the locks it holds.
C4_Witness ==
    \E p, q \in Procs :
        /\ Partial(p) /\ Len(reqs[p]) = 2
        /\ pc[q] = "acquire" /\ lock[reqs[q][held[q] + 1][1]] = p

\* The same in Redis: one step has stored both states of a request.
C4_WitnessRemote ==
    \E p \in Procs : pc[p] = "reply" /\ Accepted(p) /\ Len(reqs[p]) = 2 /\ \A i \in DOMAIN reqs[p] : Stored(reqs[p][i]) = Some(C4_NewStates(p)[i])

\* How many of the latest writes in the history h carry the timestamp t.
RECURSIVE Trail(_, _)
Trail(h, t) == IF h = <<>> \/ h[Len(h)][1] # t THEN 0 ELSE 1 + Trail(SubSeq(h, 1, Len(h) - 1), t)

IntegerBands(limit) == limit.burst % One = 0 /\ limit.delay % One = 0

\* The requests accepted on the key at the instant t form a sequence that
\* began on an absent or fully drained bucket: it is empty and the state s the
\* request read is absent or drained, or its first write stored the value 1.
C5_FromDrained(limit, h, s, t) ==
    IF Trail(h, t) = 0 THEN s = None \/ s[1][2] - (t - s[1][1]) * limit.zone.rate <= 0
    ELSE h[Len(h) - Trail(h, t) + 1][2] = One

\* The outcome r of the request that follows k accepted ones (the i-th with
\* i = k + 1 while none was rejected; after a rejection k = burst + delay + 1
\* and stays): delay 0 iff i <= burst + 1, delay (i - burst - 1)/rate iff
\* burst + 1 < i <= burst + delay + 1, rejected beyond, the last stored value
\* then being burst + delay + 1.
C5_Band(limit, h, k, r) ==
    /\ r.accepted <=> k * One <= limit.burst + limit.delay
    /\ (r.accepted /\ RatEq(r.delay, Zero)) <=> k * One <= limit.burst
    /\ r.accepted => RatEq(r.delay, IF k * One <= limit.burst THEN Zero ELSE Rat(k * One - limit.burst, limit.zone.rate))
    /\ ~r.accepted => (h # <<>> /\ h[Len(h)] = <<h[Len(h)][1], limit.burst + limit.delay + One>>)

C5_At(h, rs, limits, priors, t, r) ==
    (Len(rs) = 1 /\ IntegerBands(limits[1]) /\ C5_FromDrained(limits[1], h[rs[1][1]], priors[1], t))
        => C5_Band(limits[1], h[rs[1][1]], Trail(h[rs[1][1]], t), r)

\* Each decision, taken against the history of the key as it stands when the
\* decision takes effect: at the evaluation, and for an optimistic acceptance
\* at its EXEC; a rejection moves neither the history nor the store.
C5_Decisions(p) ==
    /\ (~Decided(p) /\ Decided(p)' /\ ~(pc'[p] = "exec"))
          => C5_At(hist, reqs'[p], Limits(p)', PriorStates(p)', t1'[p], ev'[p][1])
    /\ (pc[p] = "exec" /\ pc'[p] = "idle") => C5_At(hist, reqs[p], Limits(p), PriorStates(p), t1[p], ev[p][1])
    /\ (StepOf(p) /\ (Rejected(p) \/ Rejected(p)')) => (hist' = hist /\ state' = state /\ redis' = redis)

\* The response carries the decision and the delay of the evaluation.
C5_Response(p) ==
    (StepOf(p) /\ Decided(p) /\ pc'[p] = "idle")
        => IF Accepted(p) THEN ReturnsDelay(ret'[p], ev[p][1].delay) ELSE ret'[p] = Return(Response(FALSE, None))

\* C5: for integer burst and delay, of the requests on one key evaluated at
\* one instant from an absent or drained bucket, the i-th is accepted with
\* delay 0 iff i <= burst + 1, accepted with delay (i - burst - 1)/rate iff
\* burst + 1 < i <= burst + delay + 1, and rejected for larger i, the
\* rejected ones leaving the stored value at burst + delay + 1.
C5_SameInstantBands == [][\A p \in Procs : C5_Decisions(p) /\ C5_Response(p)]_vars

\* What does hold: the bands as every backend's evaluation decides them,
\* returned as decided by the in-memory and the optimistic limiter.
C5_BandsAsEvaluated == [][\A p \in Procs : C5_Decisions(p) /\ (Limiter(p) # "redis_script" => C5_Response(p))]_vars

\* The third request of an instant finds two accepted before it, the second
\* of them with a delay, and is rejected.
C5_Witness ==
    \E p \in Procs :
        /\ Single(p) /\ Rejected(p) /\ Limits(p)[1].delay > 0
        /\ Trail(hist[reqs[p][1][1]], t1[p]) = 2
        /\ C5_FromDrained(Limits(p)[1], hist[reqs[p][1][1]], PriorStates(p)[1], t1[p])

\* The verdict of limit i in the outcome r of the loop: it accepted when
\* its new state was appended, it rejected when the loop stopped at it.
LimitAccepted(r, i) == i <= Len(r.states)
LimitEvaluated(r, i) == i <= Len(r.states) \/ (~r.accepted /\ i = Len(r.states) + 1)

\* The key outlives the drain of a full bucket: expiry * rate >= burst + delay + 1.
OutlivesDrain(limit) == limit.zone.expiry * limit.zone.rate >= limit.burst + limit.delay + One

\* A limit with burst = delay = 0 whose key was last written (by an accepted
\* request) at t: a request at t1 >= t is accepted only if (t1 - t) * rate >= 1
\* for each such limit it names, and rejected by such a limit only if
\* (t1 - t) * rate < 1, so a request naming that limit alone is accepted iff
\* (t1 - t) * rate >= 1.  (The limits a rejected request passed before the
\* one that rejects it decide nothing.)  With any = FALSE this is asked of
\* the Redis limiters only where the key outlives the drain.
C6_At(h, rs, limits, t, r, any) ==
    \A i \in DOMAIN rs :
        (limits[i].burst = 0 /\ limits[i].delay = 0 /\ LimitEvaluated(r, i) /\ h[rs[i][1]] # <<>>
         /\ (any \/ deployment = "local" \/ OutlivesDrain(limits[i])))
            => LET last == h[rs[i][1]][Len(h[rs[i][1]])]
                   drained == (t - last[1]) * limits[i].zone.rate >= One
               IN  last[1] <= t => /\ r.accepted => drained
                                   /\ ~LimitAccepted(r, i) => ~drained

C6_Decisions(p, any) ==
    /\ (~Decided(p) /\ Decided(p)' /\ ~(pc'[p] = "exec")) => C6_At(hist, reqs'[p], Limits(p)', t1'[p], ev'[p][1], any)
    /\ (pc[p] = "exec" /\ pc'[p] = "idle") => C6_At(hist, reqs[p], Limits(p), t1[p], ev[p][1], any)
    /\ (StepOf(p) /\ (Rejected(p) \/ Rejected(p)')) => (hist' = hist /\ state' = state /\ redis' = redis)

\* C6 as stated: with burst = delay = 0, after an acceptance at t a request
\* at t' is accepted iff (t' - t) * rate >= 1, and rejected requests change
\* no state.
C6_OncePerInterval == [][\A p \in Procs : C6_Decisions(p, TRUE)]_vars

\* C6 amended: the same in the in-memory limiter, and in the Redis limiters
\* for limits whose zone expiry satisfies expiry * rate >= burst + delay + 1
\* (a shorter expiry, which configure only warns about, lets Redis drop the
\* key, and with it the acceptance at t, before 1/rate seconds have passed).
C6_OncePerIntervalUnlessExpired == [][\A p \in Procs : C6_Decisions(p, FALSE)]_vars

\* A Redis limiter accepts again after the key of the last acceptance has
\* run its full expiry, exactly 1/rate seconds later.
C6_Witness ==
    \E p \in Procs :
        /\ deployment = "remote" /\ Single(p) /\ Accepted(p)
        /\ Limits(p)[1].burst = 0 /\ Limits(p)[1].delay = 0 /\ OutlivesDrain(Limits(p)[1])
        /\ Len(hist[reqs[p][1][1]]) >= 2
        /\ hist[reqs[p][1][1]][Len(hist[reqs[p][1][1]])] = <<t1[p], One>>
        /\ hist[reqs[p][1][1]][Len(hist[reqs[p][1][1]]) - 1][1] < t1[p]

\* The limits as configured (every limiter of a deployment has the same).
Configured == rate_limits["in_memory"]

\* C7: for every key and any two writes of its state with timestamps
\* t_a < t_b, v_b <= max(v_a - (t_b - t_a)*rate, 0) + N, N being the number
\* of accepted requests that wrote the key after the first of the two, up to
\* and including the second.
C7_ValueBound ==
    \A l \in LNames : \A a, b \in DOMAIN hist[l] :
        (a < b /\ hist[l][a][1] < hist[l][b][1])
            => LET left == hist[l][a][2] - (hist[l][b][1] - hist[l][a][1]) * Configured[l].zone.rate
               IN  hist[l][b][2] <= (IF left > 0 THEN left ELSE 0) + (b - a) * One

\* A key was written twice, at one later instant, after a write: the bound
\* is met with N = 2.
C7_Witness ==
    \E l \in LNames : \E a, b \in DOMAIN hist[l] :
        /\ b = a + 2 /\ hist[l][a][1] < hist[l][b][1]
        /\ hist[l][b][2] = Max(hist[l][a][2] - (hist[l][b][1] - hist[l][a][1]) * Configured[l].zone.rate, 0) + 2 * One

\* C8: every response has a delay that is a number >= 0 when it is accepted
\* and no delay (None) when it is not, in every backend.
C8_ResponseShape ==
    \A p \in Procs :
        ret[p].kind = "return"
            => /\ ret[p].value.accepted \in BOOLEAN
               /\ ret[p].value.accepted => (ret[p].value.delay # None /\ NonNegative(ret[p].value.delay[1]))
               /\ ~ret[p].value.accepted => ret[p].value.delay = None

\* One thread's last response is an acceptance with a positive delay, the
\* other's a rejection.
C8_Witness ==
    \E p, q \in Procs :
        /\ ret[p].kind = "return" /\ ret[p].value.accepted /\ ~NumEq(ret[p].value.delay[1], Zero)
        /\ ret[q].kind = "return" /\ ~ret[q].value.accepted

\* Thread p takes a step of a request that names no limit at all.
EmptyStep(p) ==
    \/ pc[p] = "idle" /\ StepOf(p) /\ (MemRequest(p, <<>>) \/ TxRequest(p, <<>>) \/ ScriptRequest(p, <<>>))
    \/ pc[p] # "idle" /\ reqs[p] = <<>> /\ StepOf(p)

\* C9: on a configured limiter of any backend, a request with no keys is
\* accepted with delay 0, and no step of it writes: in-memory states, Redis
\* values and TTLs all stay as they are.
C9_EmptyRequest ==
    [][\A p \in Procs : EmptyStep(p) =>
        /\ state' = state /\ redis' = redis /\ hist' = hist
        /\ pc'[p] = "idle" => ReturnsDelay(ret'[p], Zero)]_vars

\* A Redis client that has issued no request with keys holds an acceptance
\* with delay 0, and the store holds nothing.
C9_Witness ==
    \E p \in Procs :
        /\ deployment = "remote" /\ nreq[p] = 0 /\ pc[p] = "idle"
        /\ ret[p] = Return(Response(TRUE, Some(Zero))) /\ redis = <<>>

\* The in-memory limiter has evaluated a request without keys, while it
\* holds state.
C9_WitnessLocal ==
    \E p \in Procs : pc[p] = "release" /\ reqs[p] = <<>> /\ Accepted(p) /\ \E l \in LNames : state[l] # <<>>

\* C10: in every backend a request naming a limit that is not configured
\* raises an error, writes nothing and leaves no lock held by the caller,
\* also when it names configured limits besides.
C10_UnknownLimit ==
    [][\A p \in Procs : (pc[p] = "idle" /\ StepOf(p)) => \A ks \in Requests :
        ((\E i \in DOMAIN ks : ks[i][1] \notin DOMAIN Configured) /\ (MemRequest(p, ks) \/ TxRequest(p, ks) \/ ScriptRequest(p, ks)))
            => /\ ret'[p] = Raise("KeyError") /\ pc'[p] = "idle"
               /\ state' = state /\ redis' = redis /\ hist' = hist
               /\ lock' = lock /\ \A l \in LNames : lock'[l] # p]_vars

\* A thread got the KeyError from the in-memory limiter, holds no lock,
\* and state is stored.
C10_Witness ==
    \E p \in Procs :
        /\ ret[p] = Raise("KeyError") /\ pc[p] = "idle" /\ \A l \in LNames : lock[l] # p
        /\ \E l \in LNames : state[l] # <<>>

\* A thread got the KeyError from a Redis limiter while the store holds state.
C10_WitnessRemote ==
    \E p \in Procs : ret[p] = Raise("KeyError") /\ pc[p] = "idle" /\ redis # <<>>

\* ---------------------------------------------------- lifecycle properties
\* Thread p calls request(ks) on Redis limiter l.
RequestOn(l, p, ks) == IF l = "redis_tx" THEN TxRequest(p, ks) ELSE ScriptRequest(p, ks)

\* C11: request on a limiter that has not been configured raises the 'not
\* configured' RuntimeError and evaluates nothing: the thread sends no
\* command (it reads no state and watches no key), nothing stored changes,
\* and the limiter stays unconfigured.
C11_NotConfigured ==
    [][\A l \in RedisLimiters : \A p \in Procs : (~configured[l] /\ pc[p] = "idle" /\ StepOf(p)) =>
        \A ks \in Requests : RequestOn(l, p, ks) =>
            /\ ret'[p] = Raise("RuntimeError")
            /\ pc'[p] = "idle"
            /\ ~configured'[l]
            /\ UNCHANGED <<rate_limits, redis, state, watching, dirty, rstates, ev, reply, hist, nreq>>]_vars

\* A request failed on the unconfigured transactional limiter while the
\* script limiter, configured, has state in the store.
C11_Witness ==
    /\ ~configured["redis_tx"] /\ configured["redis_script"]
    /\ ret["p1"] = Raise("RuntimeError")
    /\ redis # <<>>

\* C12: configure on a configured limiter raises the 'already configured'
\* RuntimeError, a configured limiter keeps its limits for ever, and every
\* evaluation is made with those limits.
C12_Reconfigure ==
    [][\A l \in RedisLimiters :
        /\ \A args \in ConfigArgs : (configured[l] /\ configure(l, args)) => cret'[l] = "RuntimeError"
        /\ configured[l] => (configured'[l] /\ rate_limits'[l] = rate_limits[l])
        /\ \A p \in Procs : (Limiter(p)' = l /\ ~Decided(p) /\ Decided(p)') =>
              /\ configured[l]
              /\ ev'[p][1] = Evaluate(LimitsOf(rate_limits[l], reqs'[p]), PriorStates(p)', t1'[p], 1, Zero, <<>>)]_vars

\* A second configure call, with other limits, has failed on the
\* transactional limiter, which is rejecting a request under its first limits.
C12_Witness ==
    /\ configured["redis_tx"] /\ cret["redis_tx"] = "RuntimeError"
    /\ rate_limits["redis_tx"] = ToDict(ArgsB)
    /\ pc["p1"] = "unwatch"

\* Two of the limits supplied name the same zone.
SharesZone(args) == \E i, j \in DOMAIN args : i # j /\ args[i][2].zone.name = args[j][2].zone.name

\* C13: a configure call whose limits share a zone name raises an error
\* (ValueError; RuntimeError on a configured limiter) and configures
\* nothing, whatever the limits' other parameters, so that in every limiter
\* no two limits are bound to one zone name.
C13_OneLimitPerZone ==
    /\ [](\A l \in Limiters : ValidConfig(rate_limits[l]))
    /\ [][\A l \in RedisLimiters : \A args \in ConfigArgs : (SharesZone(args) /\ configure(l, args)) =>
            /\ cret'[l] = (IF configured[l] THEN "RuntimeError" ELSE "ValueError")
            /\ UNCHANGED <<rate_limits, configured>>]_vars

\* A configure call has failed with ValueError on the script limiter while
\* the transactional limiter is configured.
C13_Witness ==
    /\ cret["redis_script"] = "ValueError" /\ ~configured["redis_script"]
    /\ configured["redis_tx"]

\* The limits a configure call looks at: those before the first limit that
\* names a zone already named.
Checked(args) == {i \in DOMAIN args : \A j \in 1..i : \A k \in 1..(j - 1) : args[j][2].zone.name # args[k][2].zone.name}

\* The warnings for the limits of args with indices in which: one for each
\* limit with burst + delay + 1 > expiry * rate, naming the least whole
\* number of seconds r with r * rate >= burst + delay + 1.
WarningsFor(args, which, w) ==
    /\ \A i \in which : (args[i][2].burst + args[i][2].delay + One > args[i][2].zone.expiry * args[i][2].zone.rate)
            <=> (\E x \in w : x.limit = args[i][1])
    /\ \A x \in w : \E i \in which :
            /\ x.limit = args[i][1] /\ x.zone = args[i][2].zone.name /\ x.expiry = args[i][2].zone.expiry
            /\ x.recommended * args[i][2].zone.rate >= args[i][2].burst + args[i][2].delay + One
            /\ (x.recommended - 1) * args[i][2].zone.rate < args[i][2].burst + args[i][2].delay + One

C15_SameLifecycle ==
    [][/\ \A args \in ConfigArgs : MemConfigure(args) => cret'["in_memory"] \in {"ok", "RuntimeError", "ValueError"}
       /\ \A p \in Procs : (pc[p] = "idle" /\ StepOf(p)) => \A ks \in Requests :
              (cret["in_memory"] # "ok" /\ MemRequest(p, ks)) => ret'[p] = Raise("RuntimeError")]_vars

\* The in-memory limiter, built with its limits, has answered a request and
\* failed a configure call.
C15_Witness ==
    /\ deployment = "local" /\ cret["in_memory"] = "AttributeError"
    /\ rate_limits["in_memory"] # <<>>
    /\ ret["p1"].kind = "return"

\* ---------------------------------------------------- concurrency properties
\* The locks thread p holds are those of the first held[p] limits of its
\* list, and the list ascends in the one order id gives to all threads.
InLockOrder(p) ==
    /\ \A i, j \in DOMAIN reqs[p] : i < j => id[reqs[p][i][1]] < id[reqs[p][j][1]]
    /\ \A i \in DOMAIN reqs[p] : (lock[reqs[p][i][1]] = p) <=> (i <= held[p])

\* C16: in the in-memory limiter every request takes its locks in ascending
\* id order, the same order for all threads, and every request, whatever
\* the others hold or wait for, eventually returns.
C16_NoDeadlock ==
    /\ [](\A p \in Procs : pc[p] \in {"acquire", "eval", "write"} => InLockOrder(p))
    /\ \A p \in Procs : (pc[p] # "idle") ~> (pc[p] = "idle")

\* Two requests over both limits meet: one holds the first lock and waits
\* to take the second, the other waits for the first.
C16_Witness ==
    /\ pc["p1"] = "acquire" /\ held["p1"] = 0 /\ Len(reqs["p1"]) = 2
    /\ pc["p2"] = "acquire" /\ held["p2"] = 1 /\ Len(reqs["p2"]) = 2

\* The states written for one key follow one another as in a sequential
\* run: the first starts from an empty bucket, each later one from its
\* predecessor drained over the time between them, or, where keys expire,
\* from an empty bucket once the predecessor's key has run out.
Follows(limit, a, b, expiring) ==
    /\ b[1] >= a[1]
    /\ \/ b[2] = (IF a[2] - (b[1] - a[1]) * limit.zone.rate > 0 THEN a[2] - (b[1] - a[1]) * limit.zone.rate ELSE 0) + One
       \/ expiring /\ a[1] + limit.zone.expiry <= b[1] /\ b[2] = One

Chain(limit, h, expiring) ==
    /\ h # <<>> => h[1][2] = One
    /\ \A k \in 1..(Len(h) - 1) : Follows(limit, h[k], h[k + 1], expiring)

\* Threads p and q name a common limit.
Overlap(p, q) == \E i \in DOMAIN reqs[p], j \in DOMAIN reqs[q] : reqs[p][i][1] = reqs[q][j][1]

\* C17: in the in-memory limiter concurrent requests on overlapping zones
\* do not interleave their reads and writes: a request reads its states
\* only when no other request that has read a common zone is still to write
\* or return, every state it overwrites is the one it read, and so the
\* states stored for a key are those of the requests run one after another.
C17_Serial ==
    /\ [](deployment = "local" => \A l \in LNames : Chain(rate_limits["in_memory"][l], hist[l], FALSE))
    /\ [][\A p \in Procs :
            /\ MemEvaluate(p) => \A q \in Procs \ {p} : (pc[q] \in {"write", "release"} => ~Overlap(p, q))
            /\ MemWrite(p) => MemGet(reqs[p][wi[p] + 1][1], reqs[p][wi[p] + 1][2]) = rstates[p][wi[p] + 1]]_vars

\* A second request over both zones is between its two writes while another
\* request over both zones waits for the first lock.
C17_Witness ==
    /\ pc["p1"] = "write" /\ wi["p1"] = 1 /\ Len(reqs["p1"]) = 2 /\ nreq["p1"] = 2
    /\ pc["p2"] = "acquire" /\ held["p2"] = 0 /\ Len(reqs["p2"]) = 2

\* The last state written for limit l, or None.
LastWritten(l) == IF hist[l] = <<>> THEN None ELSE Some(hist[l][Len(hist[l])])

\* What thread p read for its i-th key is what the latest committed write
\* to that key left: its state, or nothing because there was no such write
\* or because its key had run out by the time p read.
ReadLatest(p, i) ==
    LET last == LastWritten(reqs[p][i][1])
    IN  IF rstates[p][i] = None
        THEN last = None \/ last[1][1] + Limits(p)[i].zone.expiry <= t1[p]
        ELSE decode(rstates[p][i]) = last

\* C18: in the transactional limiter, every request that commits read, for
\* each of its keys, the state left by the latest committed write, decided
\* and computed its new states from these, and its commit leaves exactly
\* these new states, each following the last: no committed update is lost.
C18_CommitsOnLatest ==
    [][\A p \in Procs : TxExecute(p) =>
        /\ \A i \in DOMAIN reqs[p] : ReadLatest(p, i)
        /\ ev[p][1] = Evaluate(Limits(p), [i \in DOMAIN reqs[p] |-> decode(rstates[p][i])], t1[p], 1, Zero, <<>>)
        /\ ev[p][1].accepted /\ Len(ev[p][1].states) = Len(reqs[p])
        /\ \A i \in DOMAIN reqs[p] :
              /\ hist'[reqs[p][i][1]] = Append(hist[reqs[p][i][1]], ev[p][1].states[i])
              /\ decode(Some(redis'[rkeysOf(rate_limits["redis_tx"], reqs[p])[i]].val)) = Some(ev[p][1].states[i])]_vars

\* Two transactions over a common key have both read it and are both about
\* to commit.
C18_Witness ==
    /\ pc["p1"] = "exec" /\ pc["p2"] = "exec" /\ Overlap("p1", "p2")
    /\ ~dirty["p1"] /\ ~dirty["p2"]
    /\ rstates["p1"] # <<None>> /\ rstates["p1"] # <<None, None>>

\* C19: with scripts and transactions at work on the same keys, the states
\* written for a key form one sequence in which each follows from its
\* predecessor, and a transaction commits only if every key it read still
\* holds what it read (or has run out since): never over a later write.
C19_OneOrderPerKey ==
    /\ [](deployment = "remote" => \A l \in LNames : Chain(rate_limits["redis_tx"][l], hist[l], TRUE))
    /\ [][\A p \in Procs : TxExecute(p) => \A i \in DOMAIN reqs[p] :
            LET rkey == rkeysOf(rate_limits["redis_tx"], reqs[p])[i]
            IN  \/ RedisGet(rkey) = rstates[p][i]
                \/ rstates[p][i] # None /\ rkey \notin DOMAIN redis]_vars

\* A script has written a key after a transaction read it: the transaction,
\* ready to commit, is flagged, and the script's reply is on its way.
C19_Witness ==
    /\ pc["p2"] = "exec" /\ dirty["p2"]
    /\ pc["p1"] = "reply" /\ ev["p1"][1].accepted /\ Overlap("p1", "p2")
    /\ \E i \in DOMAIN reqs["p2"] :
          LET rkey == rkeysOf(rate_limits["redis_tx"], reqs["p2"])[i]
          IN  rkey \in DOMAIN redis /\ RedisGet(rkey) # rstates["p2"][i]

\* Consecutive acceptances on the key of limit l are at least 1/rate apart.
Spaced(limit, h) == \A k \in 1..(Len(h) - 1) : (h[k + 1][1] - h[k][1]) * limit.zone.rate >= One

\* C20 as stated: for a limit with burst = delay = 0, under any interleaving
\* of the threads' requests, the evaluation times of any two accepted
\* requests on the key are at least 1/rate apart.
C20_AcceptedApart ==
    \A l \in LNames :
        LET limit == rate_limits["in_memory"][l]
        IN  (limit.burst = 0 /\ limit.delay = 0) => Spaced(limit, hist[l])

\* C20 amended: the same in the in-memory limiter, and in the Redis limiters
\* for limits whose zone expiry satisfies expiry * rate >= burst + delay + 1.
C20_AcceptedApartUnlessExpired ==
    \A l \in LNames :
        LET limit == rate_limits["in_memory"][l]
        IN  (limit.burst = 0 /\ limit.delay = 0 /\ (deployment = "local" \/ OutlivesDrain(limit)))
                => Spaced(limit, hist[l])

\* Two acceptances on one key exactly 1/rate apart, and a thread that has
\* just been rejected on it in between or after.
C20_Witness ==
    \E l \in LNames :
        /\ rate_limits["in_memory"][l].burst = 0 /\ rate_limits["in_memory"][l].delay = 0
        /\ Len(hist[l]) = 2 /\ (hist[l][2][1] - hist[l][1][1]) * rate_limits["in_memory"][l].zone.rate = One
        /\ \E p \in Procs : Rejected(p) /\ reqs[p][Len(ev[p][1].states) + 1][1] = l

\* The response a backend's evaluation r makes.
ResponseOf(r) == IF r.accepted THEN Accept(r.delay) ELSE Reject

\* What the in-memory limiter returns for the request rs, evaluated in lock
\* order at clock reading t on the prior states prior[i] of rs[i].
LocalResponse(cfg, rs, prior, t) ==
    LET order == Sort(rs, id)
        pos(i) == CHOOSE j \in DOMAIN rs : rs[j] = order[i]
    IN  ResponseOf(Evaluate(LimitsOf(cfg, order), [i \in DOMAIN order |-> prior[pos(i)]], t, 1, Zero, <<>>))

\* The evaluation of the optimistic limiter for the request rs on the raw
\* values raw[i] it would MGET, at server time t.
OptimisticEvaluation(cfg, rs, raw, t) ==
    Evaluate(LimitsOf(cfg, rs), [i \in DOMAIN rs |-> decode(raw[i])], t, 1, Zero, <<>>)

SameResponse(a, b) ==
    /\ a.accepted = b.accepted
    /\ (a.delay = None) = (b.delay = None)
    /\ a.delay # None => NumEq(a.delay[1], b.delay[1])

\* The (timestamp, value) pairs a keyspace decodes to.
Decoded(keyspace) == [k \in DOMAIN keyspace |-> decode(Some(keyspace[k].val))]

\* C21: on the same configuration, stored states and clock reading, the
\* scripted limiter returns the response (accepted flag and delay) that the
\* optimistic and the in-memory limiter return, and it leaves stored states
\* that decode to the (timestamp, value) pairs the optimistic limiter's
\* transaction would leave for every key.
C21_SameResponses ==
    [][\A p \in Procs :
        /\ (pc[p] = "reply" /\ pc'[p] = "idle") =>
              /\ SameResponse(ret'[p].value, ResponseOf(OptimisticEvaluation(rate_limits["redis_tx"], reqs[p], rstates[p], t1[p])))
              /\ SameResponse(ret'[p].value, LocalResponse(rate_limits["in_memory"], reqs[p], [i \in DOMAIN reqs[p] |-> decode(rstates[p][i])], t1[p]))
        /\ (pc[p] = "idle" /\ pc'[p] = "reply") =>
              LET cfg == rate_limits["redis_tx"]
                  r == OptimisticEvaluation(cfg, reqs'[p], rstates'[p], t1'[p])
                  vals == [i \in DOMAIN Written(r) |-> encode(Written(r)[i])]
              IN  Decoded(redis') = Decoded(Setex(redis, rkeysOf(cfg, reqs'[p]), LimitsOf(cfg, reqs'[p]), vals, 1))]_vars

\* The states the codecs are tried on: every timestamp of the clock, every
\* value up to MaxValue requests in units of 1/One.
MaxValue == 3
States == (0..MaxTime) \X (0..(MaxValue * One))

\* C22: for the packed binary and for the textual codec, decode(encode(s))
\* is a State equal to s: for every state s of States stamped with the
\* clock's reading, under the codec the limiter was constructed with, and
\* for the states the optimistic limiter's transaction encodes and stores,
\* which decode from the store to what was written.
C22_RoundTrip ==
    /\ [](\A s \in States : s[1] = now => CodecDecode(codec["redis_tx"], Some(CodecEncode(codec["redis_tx"], s))) = Some(s))
    /\ [][\A p \in LifeProcs : (pc[p] = "exec" /\ pc'[p] = "idle") =>
            \A i \in DOMAIN reqs[p] :
                LET rkey == rkeysOf(rate_limits["redis_tx"], reqs[p])[i]
                IN  CodecDecode(codec["redis_tx"], Some(redis'[rkey].val)) = Some(ev[p][1].states[i])]_vars

\* With the textual codec, a transaction has stored the state of a second,
\* delayed request, and get_state has read it back.
C22_Witness ==
    /\ codec["redis_tx"] = "json"
    /\ \E l \in LNames :
          /\ Len(hist[l]) = 2 /\ hist[l][Len(hist[l])][2] > One /\ hist[l][Len(hist[l])][1] > 0
          /\ ret["p1"] = ReturnState(Some(hist[l][Len(hist[l])]))
          /\ RedisGet(RedisKey(rate_limits["redis_tx"][l].zone.name, "a")) = Some(JsonEncode(hist[l][Len(hist[l])]))

\* Every value of the raw states read is null or zero-length.
NothingIn(raw) == \A i \in DOMAIN raw : PyFalsy(raw[i])

\* Thread p's request returns or raises, having read only such values.
ReadNothing(p) == pc[p] \in {"exec", "unwatch", "reply", "error"} /\ pc'[p] = "idle" /\ NothingIn(rstates[p])

\* The store holds the state (t, 1) under each key of the request rs.
FreshIn(keyspace, rs, t) ==
    \A i \in DOMAIN rs :
        LET rkey == rkeysOf(rate_limits["redis_tx"], rs)[i]
        IN  rkey \in DOMAIN keyspace /\ CodecDecode(codec["redis_tx"], Some(keyspace[rkey].val)) = Some(<<t, One>>)

\* C23: a stored value that is null or zero-length is absent state, to the
\* host codecs and to the script alike: a request that reads only such
\* values is evaluated with t0 = t1, v0 = 0, so it is accepted without delay
\* and leaves the state (t1, 1) under each of its keys.
C23_EmptyIsAbsent ==
    [][\A p \in LifeProcs :
          /\ ReadNothing(p) => ReturnsDelay(ret'[p], Zero)
          /\ (pc[p] = "exec" /\ pc'[p] = "idle" /\ NothingIn(rstates[p])) => FreshIn(redis', reqs[p], t1[p])
          /\ (pc[p] = "idle" /\ pc'[p] \in {"reply", "error"} /\ NothingIn(rstates'[p])) => FreshIn(redis', reqs'[p], t1'[p])]_vars

\* What does hold: the same for the optimistic limiter, whose host codec
\* decodes both to None, and for the script on null values; on a
\* zero-length value the script's decode raises and the call fails with
\* ResponseError, the store untouched.
C23_HostCodecsAndNull ==
    [][\A p \in LifeProcs :
          /\ (ReadNothing(p) /\ pc[p] # "error") => ReturnsDelay(ret'[p], Zero)
          /\ (ReadNothing(p) /\ pc[p] = "error") => ret'[p] = Raise("ResponseError")
          /\ (pc[p] = "exec" /\ pc'[p] = "idle" /\ NothingIn(rstates[p])) => FreshIn(redis', reqs[p], t1[p])
          /\ (pc[p] = "idle" /\ pc'[p] = "reply" /\ NothingIn(rstates'[p])) =>
                /\ FreshIn(redis', reqs'[p], t1'[p])
                /\ \A i \in DOMAIN rstates'[p] : rstates'[p][i] = None
          /\ (pc[p] = "idle" /\ pc'[p] = "error") =>
                /\ redis' = redis
                /\ \E i \in DOMAIN rstates'[p] : rstates'[p][i] = Some(<<>>)]_vars

\* The key rkey holds a value written at this instant with the TTL expiry.
SetWithTtl(keyspace, rkey, expiry) ==
    rkey \in DOMAIN keyspace /\ keyspace[rkey].ttl = expiry /\ keyspace[rkey].exp = now + expiry

\* C24: in both Redis backends every write of a key's state sets the key's
\* TTL to the expiry of the zone of the key's limit, each key of one request
\* to its own zone's; no entry of the keyspace changes in any other way, and
\* no step of a rejected request changes a value or a TTL.
C24_TtlIsZoneExpiry ==
    [][/\ \A p \in Procs :
            /\ (pc[p] = "exec" /\ pc'[p] = "idle") =>
                  \A i \in DOMAIN reqs[p] : SetWithTtl(redis', rkeysOf(rate_limits["redis_tx"], reqs[p])[i], Limits(p)[i].zone.expiry)
            /\ (pc[p] = "idle" /\ pc'[p] = "reply" /\ Accepted(p)') =>
                  \A i \in DOMAIN reqs'[p] :
                      SetWithTtl(redis', rkeysOf(rate_limits["redis_script"], reqs'[p])[i], rate_limits["redis_script"][reqs'[p][i][1]].zone.expiry)
            /\ (StepOf(p) /\ (Rejected(p) \/ Rejected(p)')) => redis' = redis
       /\ \A k \in DOMAIN redis' :
            (k \notin DOMAIN redis \/ redis'[k] # redis[k]) =>
                \E l \in LNames : k = RedisKey(rate_limits["redis_tx"][l].zone.name, "a") /\ SetWithTtl(redis', k, rate_limits["redis_tx"][l].zone.expiry)]_vars

\* A scripted request on two limits whose zones expire after different
\* times has just written both keys.
C24_Witness ==
    \E p \in Procs :
        /\ pc[p] = "reply" /\ Accepted(p) /\ Len(reqs[p]) = 2
        /\ Limits(p)[1].zone.expiry # Limits(p)[2].zone.expiry
        /\ \A i \in DOMAIN reqs[p] : SetWithTtl(redis, rkeysOf(rate_limits["redis_script"], reqs[p])[i], Limits(p)[i].zone.expiry)

\* Thread p's call ends in this step, raising an interruption.
Interrupted(p) == pc[p] # "idle" /\ pc'[p] = "idle" /\ ret'[p].kind = "raise" /\ ret'[p].exc \in Interruptions

\* Thread p's EXEC completes in this step.
Commits(p) == pc[p] = "exec" /\ pc'[p] = "idle" /\ ret'[p].kind = "return"

\* The keyspace after p's whole transaction: each key of the request holds
\* the new state of its limit, every other key what it held.
Committed(p) ==
    LET cfg == rate_limits["redis_tx"]
        rkeys == rkeysOf(cfg, reqs[p])
    IN  /\ \A i \in DOMAIN reqs[p] :
              /\ rkeys[i] \in DOMAIN redis'
              /\ redis'[rkeys[i]].val = CodecEncode(codec["redis_tx"], ev[p][1].states[i])
              /\ redis'[rkeys[i]].exp = now + Limits(p)[i].zone.expiry
        /\ \A k \in (DOMAIN redis \cup DOMAIN redis') \ Range(rkeys) : k \in DOMAIN redis /\ k \in DOMAIN redis' /\ redis'[k] = redis[k]

Malformed == {FmtOpenBrace, FmtCloseBrace}
ReplacementFields(fmt) ==
    CASE fmt \in {DefaultKeyFormat, FmtZoneKey, FmtKeyZone, FmtRepeated, FmtConversion, FmtEscaped} -> {"zone", "key"}
      [] fmt = FmtNoFields -> {}
      [] fmt = FmtNoKey -> {"zone"}
      [] fmt = FmtNoZone -> {"key"}
      [] fmt = FmtUnnamed -> {"zone", "key", ""}
      [] fmt = FmtExtra -> {"zone", "key", "extra"}
      [] fmt = FmtPositional -> {"zone", "key", "0"}
      [] fmt = FmtAttribute -> {"zone.name", "key"}
      [] OTHER -> {}
NamesZoneAndKey(fmt) == fmt \notin Malformed /\ ReplacementFields(fmt) = {"zone", "key"}

VersionTuple(v) ==
    CASE v = V2_6_17 -> <<2, 6, 17>>
      [] v = V3 -> <<3>>
      [] v = V3_1_9 -> <<3, 1, 9>>
      [] v = V3_2 -> <<3, 2>>
      [] v = V3_2_0 -> <<3, 2, 0>>
      [] v = V3_10 -> <<3, 10>>
      [] v = V10_0 -> <<10, 0>>
      [] v = V6_2_14 -> <<6, 2, 14>>
      [] OTHER -> <<>>

\* a comes before b in the lexicographic order: they agree up to a place
\* where a has ended and b has not, or where a has the lesser element.
LexLess(a, b) ==
    \E i \in 1..Len(b) :
        /\ i <= Len(a) + 1
        /\ \A j \in 1..(i - 1) : a[j] = b[j]
        /\ (i = Len(a) + 1 \/ a[i] < b[i])

\* C27: the construction of a limiter whose class declares a minimum version
\* (with a valid key format) fails with RuntimeError exactly when the
\* server's version, as a tuple of ints, is lexicographically less than the
\* minimum; with an equal or greater version (and a known codec) it
\* succeeds.  A class that declares none never fails on the version.
C27_MinimumVersion ==
    [][\A l \in RedisLimiters, fmt \in KeyFormats, c \in CodecArgs :
          (codec'[l] \in {"none", c} /\ key_format'[l] \in {None, Some(fmt)} /\ version' = version /\ RedisConstruct(l, fmt, c)) =>
              /\ (MIN_REDIS_VERSION[l] # <<>> /\ NamesZoneAndKey(fmt)) =>
                    /\ cret'[l] = "RuntimeError" <=> LexLess(VersionTuple(version), MIN_REDIS_VERSION[l])
                    /\ (~LexLess(VersionTuple(version), MIN_REDIS_VERSION[l]) /\ c \in CodecNames) => cret'[l] = "constructed"
              /\ cret'[l] = "RuntimeError" => (MIN_REDIS_VERSION[l] # <<>> /\ LexLess(VersionTuple(version), MIN_REDIS_VERSION[l]))]_vars

\* The scripted limiter was refused by a server that reports "3", whose
\* tuple is a proper prefix of the minimum, while the optimistic one, which
\* declares no minimum, was constructed on the same server.
C27_Witness ==
    /\ version = V3
    /\ cret["redis_script"] = "RuntimeError"
    /\ cret["redis_tx"] = "constructed"

\* ------------------------------------------------------------------- C28
\* In every interval the acceptances a..b of the history h fall in (the
\* shortest being the one from the first's evaluation time to the last's,
\* of length T), their number is at most burst + delay + 1 + T * rate.
Bounded(limit, h) ==
    \A a \in DOMAIN h : \A b \in a..Len(h) :
        (b - a + 1) * One <= limit.burst + limit.delay + One + (h[b][1] - h[a][1]) * limit.zone.rate

\* C28 as stated: on every key, in any interval of length T, the number of
\* accepted requests evaluated within the interval is at most
\* burst + delay + 1 + T * rate, under any interleaving of the requests.
C28_AcceptedInInterval ==
    \A l \in LNames : Bounded(rate_limits["in_memory"][l], hist[l])

\* C28 amended: the same in the in-memory limiter, and in the Redis limiters
\* for limits whose zone expiry satisfies expiry * rate >= burst + delay + 1.
C28_AcceptedInIntervalUnlessExpired ==
    \A l \in LNames :
        LET limit == rate_limits["in_memory"][l]
        IN  (deployment = "local" \/ OutlivesDrain(limit)) => Bounded(limit, hist[l])

\* The bound is met: on a limit with a queue, as many acceptances as
\* burst + delay + 1 at one clock reading, and a thread turned away by the
\* limit at that same reading.
C28_Witness ==
    \E l \in LNames :
        LET limit == rate_limits["in_memory"][l]
        IN  /\ limit.delay > 0 /\ (deployment = "local" \/ OutlivesDrain(limit))
            /\ Len(hist[l]) >= 2
            /\ Len(hist[l]) * One = limit.burst + limit.delay + One + (hist[l][Len(hist[l])][1] - hist[l][1][1]) * limit.zone.rate
            /\ \E p \in Procs : Rejected(p) /\ reqs[p][Len(ev[p][1].states) + 1][1] = l /\ t1[p] = hist[l][Len(hist[l])][1]

\* ------------------------------------------------------------------- C29
\* The keys of thread p's optimistic request.
RequestKeys(p) == rkeysOf(rate_limits["redis_tx"], reqs[p])

\* The positions a thread's optimistic request goes through.
TxPositions == {"watch", "mget", "time", "unwatch", "exec"}

\* Thread p's step from position a to position b.
Goes(p, a, b) == pc[p] = a /\ pc'[p] = b

\* C29: each optimistic request issues WATCH on all its keys before it has
\* read anything, then MGET of all its keys, then TIME, and then, when
\* accepted, MULTI, one SETEX per limit in request order and EXEC, or, when
\* rejected, UNWATCH and no SETEX; nothing is read before WATCH, and the
\* store is written at EXEC only.
C29_Protocol ==
    [][\A p \in Procs :
          /\ (pc[p] = "idle" /\ pc'[p] \in TxPositions) => (pc'[p] = "watch" /\ rstates'[p] = <<>> /\ ev'[p] = None)
          /\ pc[p] = "watch" => rstates[p] = <<>>
          /\ (pc[p] = "watch" /\ StepOf(p)) =>
                (pc'[p] = "mget" /\ watching'[p] = Range(RequestKeys(p)) /\ rstates'[p] = <<>> /\ redis' = redis)
          /\ (pc[p] = "mget" /\ StepOf(p)) =>
                /\ pc'[p] = "time" /\ watching[p] = Range(RequestKeys(p)) /\ redis' = redis
                /\ rstates'[p] = [i \in DOMAIN reqs[p] |-> RedisGet(RequestKeys(p)[i])]
          /\ (pc[p] = "time" /\ StepOf(p)) =>
                /\ redis' = redis /\ t1'[p] = now /\ ev'[p] # None
                /\ pc'[p] = (IF ev'[p][1].accepted THEN "exec" ELSE "unwatch")
          /\ (pc[p] = "unwatch" /\ StepOf(p)) =>
                (pc'[p] = "idle" /\ redis' = redis /\ watching'[p] = {} /\ ret'[p] = Return(Reject))
          /\ (pc[p] = "exec" /\ StepOf(p)) =>
                \/ pc'[p] = "watch" /\ redis' = redis
                \/ /\ pc'[p] = "idle" /\ ev[p][1].accepted /\ Len(ev[p][1].states) = Len(reqs[p])
                   /\ \A i \in DOMAIN reqs[p] :
                         (\A j \in (i + 1)..Len(reqs[p]) : RequestKeys(p)[j] # RequestKeys(p)[i]) =>
                             /\ redis'[RequestKeys(p)[i]].val = CodecEncode(codec["redis_tx"], ev[p][1].states[i])
                             /\ redis'[RequestKeys(p)[i]].ttl = Limits(p)[i].zone.expiry
                   /\ \A k \in DOMAIN redis : k \notin Range(RequestKeys(p)) => (k \in DOMAIN redis' /\ redis'[k] = redis[k])
                   /\ DOMAIN redis' = DOMAIN redis \cup Range(RequestKeys(p))]_vars

\* A thread's accepted request of two limits has watched and read both
\* keys, one of them written before, and is about to send MULTI, SETEX,
\* SETEX, EXEC.
C29_Witness ==
    \E p \in Procs :
        /\ pc[p] = "exec" /\ Len(reqs[p]) = 2 /\ Cardinality(watching[p]) = 2 /\ Len(rstates[p]) = 2
        /\ redis # <<>>

\* ------------------------------------------------------------------- C30
\* What tx_fn decides on the states thread p has read, at the time it read.
Attempted(p) ==
    Evaluate(Limits(p), [i \in DOMAIN reqs[p] |-> CodecDecode(codec["redis_tx"], rstates[p][i])], t1[p], 1, Zero, <<>>)

\* C30: when EXEC fails because a watched key was modified after WATCH, the
\* aborted run writes nothing and returns nothing, and the transaction is
\* run again from WATCH: the states are read from the store again and the
\* server's time is read again; the response returned is the decision made
\* on the states and time read in the run that completed, whose keys nobody
\* has written since it read them.
C30_RerunFromWatch ==
    [][\A p \in Procs :
          /\ (pc[p] = "exec" /\ dirty[p] /\ StepOf(p)) => pc'[p] = "watch"
          /\ Goes(p, "exec", "watch") =>
                /\ dirty[p] /\ redis' = redis /\ hist' = hist
                /\ ret[p] = NoRet /\ ret'[p] = NoRet
                /\ rstates'[p] = <<>> /\ ev'[p] = None /\ reqs'[p] = reqs[p]
          /\ (attempt[p] >= 1 /\ Goes(p, "watch", "mget")) =>
                (attempt'[p] = attempt[p] + 1 /\ watching'[p] = Range(RequestKeys(p)) /\ ~dirty'[p])
          /\ (attempt[p] >= 2 /\ Goes(p, "mget", "time")) =>
                rstates'[p] = [i \in DOMAIN reqs[p] |-> RedisGet(RequestKeys(p)[i])]
          /\ (attempt[p] >= 2 /\ pc[p] = "time" /\ StepOf(p)) =>
                (t1'[p] = now /\ ev'[p] = Some(Attempted(p)'))
          /\ Goes(p, "exec", "idle") =>
                /\ ~dirty[p] /\ ev[p] = Some(Attempted(p))
                /\ ret'[p] = Return(ResponseOf(Attempted(p)))
                /\ \A i \in DOMAIN reqs[p] : RedisGet(RequestKeys(p)[i]) \in {rstates[p][i], None}
          /\ Goes(p, "unwatch", "idle") =>
                (ev[p] = Some(Attempted(p)) /\ ret'[p] = Return(ResponseOf(Attempted(p))))]_vars

\* A thread's second run has read a state another thread's commit stored
\* after the first run's WATCH, and a later time, and is about to commit.
C30_Witness ==
    \E p \in Procs :
        /\ pc[p] = "exec" /\ attempt[p] = 2 /\ ~dirty[p]
        /\ t1[p] > 0
        /\ \E i \in DOMAIN reqs[p] : rstates[p][i] # None /\ RedisGet(RequestKeys(p)[i]) = rstates[p][i]

\* ------------------------------------------------------------------- C31
\* The number of requests the threads other than p may issue.
OthersBudget(p) == IF p = "p1" THEN Budget["p2"] ELSE Budget["p1"]

\* C31: with finitely many concurrent optimistic requests and a fair
\* scheduler, every request eventually returns, after no more runs than one
\* and one for each request of the others; a request is flagged for a retry
\* only in the step in which another request commits a write to a key it
\* watches, so that a request that has committed or been rejected, which
\* sends nothing more, causes no further conflict.
C31_RetriesEnd ==
    /\ \A p \in Procs : (pc[p] \in TxPositions) ~> (pc[p] = "idle")
    /\ [](\A p \in Procs : attempt[p] <= 1 + OthersBudget(p))
    /\ [][\A p \in Procs :
             /\ (~dirty[p] /\ dirty'[p]) =>
                   \E q \in Procs \ {p} : Commits(q) /\ watching[p] \cap Range(RequestKeys(q)) # {}
             /\ Goes(p, "exec", "watch") => dirty[p]]_vars

\* A request in its third run, after each of the other thread's two
\* requests committed under it, with nothing left to disturb it.
C31_Witness ==
    \E p \in Procs :
        /\ attempt[p] = 3 /\ pc[p] = "exec" /\ ~dirty[p]
        /\ \A q \in Procs \ {p} : pc[q] = "idle" /\ nreq[q] = Budget[q]

\* ------------------------------------------------------------------- C32
\* C32: in the in-memory limiter a request that returns, accepted or
\* rejected, holds none of the locks it took: a lock is held only by a
\* thread inside its with block, for a limit that thread's request names,
\* the step that returns leaves the thread no lock, and once every thread
\* has returned every lock is free for the next request.
C32_LocksReleased ==
    /\ [](\A l \in LNames : lock[l] # "free" =>
             /\ pc[lock[l]] \in {"acquire", "eval", "write", "release"}
             /\ \E i \in 1..held[lock[l]] : reqs[lock[l]][i][1] = l)
    /\ []((\A p \in Procs : pc[p] = "idle") => \A l \in LNames : lock[l] = "free")
    /\ [][\A p \in Procs :
             (pc[p] = "release" /\ StepOf(p)) =>
                 /\ pc'[p] = "idle" /\ \A l \in LNames : lock'[l] # p
                 /\ ret'[p] = Return(IF ev[p][1].accepted THEN Accept(ev[p][1].delay) ELSE Reject)]_vars

\* A request has been rejected and has returned, and the other thread's
\* request on both limits now holds both locks.
C32_Witness ==
    \E p, q \in Procs :
        /\ pc[p] = "idle" /\ ret[p] = Return(Reject)
        /\ pc[q] = "eval" /\ held[q] = 2 /\ \A l \in LNames : lock[l] = q

\* ------------------------------------------------------------------- C33
\* The scripted limiter's call returns in this step with the script's reply.
ScriptReturns(p) == pc[p] = "reply" /\ pc'[p] = "idle"

\* C33: in the scripted limiter the client reports accepted iff the script
\* accepted (its reply for an accepted request, a delay of 0 included, is
\* never taken for the false of a rejection), and the delay reported equals
\* the delay the script computed.
C33_ReportsScriptDecision ==
    [][\A p \in Procs : ScriptReturns(p) =>
          /\ ret'[p].kind = "return"
          /\ ret'[p].value.accepted <=> ev[p][1].accepted
          /\ ev[p][1].accepted => ReturnsDelay(ret'[p], ev[p][1].delay)]_vars

\* What does hold: the accepted flag is the script's, a reply of "0" being a
\* non-empty string and so true; the delay reported is the script's delay
\* after tostring has kept 14 significant digits of it.
C33_ReportsFlagAndRoundedDelay ==
    [][\A p \in Procs : ScriptReturns(p) =>
          /\ ret'[p].kind = "return"
          /\ ret'[p].value.accepted <=> ev[p][1].accepted
          /\ ev[p][1].accepted => ReturnsDelay(ret'[p], RoundSig(ev[p][1].delay, SigDigits))
          /\ ~ev[p][1].accepted => ret'[p] = Return(Reject)]_vars

\* ------------------------------------------------------------------- C34
\* C34: in every reachable state of every backend, the value v of every
\* stored state of a key of a limit (burst, delay) satisfies
\* 1 <= v <= burst + delay + 1.
C34_StoredValueRange ==
    \A l \in LNames : \A key \in Keys :
        Stored(<<l, key>>) # None =>
            /\ One <= Stored(<<l, key>>)[1][2]
            /\ Stored(<<l, key>>)[1][2] <= Configured[l].burst + Configured[l].delay + One

\* Both ends at once: one limit's key holds the value 1, and the key of a
\* limit with a queue holds burst + delay + 1, its queue being full.
C34_Witness ==
    \E l, m \in LNames :
        /\ Stored(<<l, "a">>) # None /\ Stored(<<l, "a">>)[1][2] = One
        /\ Configured[m].delay > 0
        /\ Stored(<<m, "a">>) # None /\ Stored(<<m, "a">>)[1][2] = Configured[m].burst + Configured[m].delay + One

\* ------------------------------------------------------------------- C35
\* The timestamps of the states stored one after another for a key.
Ascending(h) == \A a \in DOMAIN h : \A b \in a..Len(h) : h[a][1] <= h[b][1]

\* C35: for each key the timestamps of successive stored states are
\* non-decreasing under any interleaving; the in-memory limiter reads the
\* clock only while it holds every lock of the request, and an optimistic
\* transaction that has read the server's time when another request commits
\* a write to one of its keys is flagged and does not commit.
C35_TimestampsAscend ==
    /\ [](\A l \in LNames : Ascending(hist[l]))
    /\ [][\A p \in Procs :
             /\ (pc[p] = "eval" /\ StepOf(p)) =>
                   (t1'[p] = now /\ \A i \in DOMAIN reqs[p] : lock[reqs[p][i][1]] = p)
             /\ (pc[p] = "exec" /\ pc'[p] = "exec"
                    /\ \E l \in Names(reqs[p]) : hist'[l] # hist[l]) => dirty'[p]
             /\ Goes(p, "exec", "idle") =>
                   (~dirty[p] /\ \A i \in DOMAIN reqs[p] :
                         hist[reqs[p][i][1]] = <<>> \/ hist[reqs[p][i][1]][Len(hist[reqs[p][i][1]])][1] <= t1[p])]_vars

\* A transaction read the server's time, then another request committed a
\* later state on one of its keys: it is flagged and its EXEC will fail.
C35_Witness ==
    \E p \in Procs :
        /\ pc[p] = "exec" /\ dirty[p]
        /\ \E i \in DOMAIN reqs[p] :
              /\ hist[reqs[p][i][1]] # <<>>
              /\ hist[reqs[p][i][1]][Len(hist[reqs[p][i][1]])][1] > t1[p]

\* ------------------------------------------------------------------- C36
\* What the loop decides at time t when every key of the request that the
\* server has dropped (gone) were still there with the last state stored.
Kept(limits, rs, priors, gone, h, t) ==
    Evaluate(limits,
             [i \in DOMAIN rs |-> IF i \in gone THEN Some(h[rs[i][1]][Len(h[rs[i][1]])]) ELSE priors[i]],
             t, 1, Zero, <<>>)

\* The limits of the request rs whose key, once written, has run out and is
\* read as absent: all of them when always is set, else those whose zone
\* expiry satisfies expiry * rate >= burst + delay + 1.
Gone(limits, rs, raw, keyspace, rkeys, h, always) ==
    {i \in DOMAIN rs : /\ raw[i] = None /\ rkeys[i] \notin DOMAIN keyspace /\ h[rs[i][1]] # <<>>
                       /\ (always \/ OutlivesDrain(limits[i]))}

\* The decisions of the Redis limiters taken in this step are those they
\* would take had the expired keys been kept.
ExpiryUnseen(p, always) ==
    /\ Goes(p, "time", pc'[p]) /\ pc'[p] # "time" =>
          LET priors == [i \in DOMAIN reqs[p] |-> CodecDecode(codec["redis_tx"], rstates[p][i])]
              gone == Gone(Limits(p), reqs[p], rstates[p], redis, RequestKeys(p), hist, always)
          IN  ev'[p] = Some(Kept(Limits(p), reqs[p], priors, gone, hist, now))
    /\ Goes(p, "idle", "reply") =>
          LET cfg == rate_limits["redis_script"]
              priors == [i \in DOMAIN reqs'[p] |-> CodecDecode(codec["redis_script"], rstates'[p][i])]
              gone == Gone(LimitsOf(cfg, reqs'[p]), reqs'[p], rstates'[p], redis, rkeysOf(cfg, reqs'[p]), hist, always)
          IN  ev'[p] = Some(Kept(LimitsOf(cfg, reqs'[p]), reqs'[p], priors, gone, hist, now))

\* C36: for a limit with expiry * rate >= burst + delay + 1, the removal of
\* its key by TTL expiry never changes a later response: a request evaluated
\* after the key has expired gets the decision, the delay and the new states
\* it would get had the key been kept.
C36_ExpiryUnseen == [][\A p \in Procs : ExpiryUnseen(p, FALSE)]_vars

\* The same for every limit, whatever its expiry: violated, the condition
\* on the expiry is needed.
C36_AnyExpiryUnseen == [][\A p \in Procs : ExpiryUnseen(p, TRUE)]_vars

\* An optimistic request has been accepted on a key that was written, has
\* run out since and was read as absent, for a limit of sufficient expiry.
C36_Witness ==
    \E p \in Procs :
        /\ pc[p] = "exec" /\ Accepted(p)
        /\ Gone(Limits(p), reqs[p], rstates[p], redis, RequestKeys(p), hist, FALSE) # {}

\* ------------------------------------------------------------------- C37
\* The state stored in the keyspace for the key of limit l with key k.
StateOf(keyspace, l, k) ==
    LET rkey == RedisKey(CfgKeys[l].zone.name, k)
    IN  IF rkey \in DOMAIN keyspace THEN Some(keyspace[rkey].val) ELSE None

\* The request rs, whose new states are written in this step, leaves every
\* pair it does not name as it was.
OthersKept(rs) ==
    \A l \in LNames, k \in RenderedKeys :
        (\A i \in DOMAIN rs : rs[i] # <<l, k>>) => StateOf(redis', l, k) = StateOf(redis, l, k)

\* The same for the pairs whose remote key is none of the request's.
OthersKeptApart(rs) ==
    \A l \in LNames, k \in RenderedKeys :
        (\A i \in DOMAIN rs : RedisKey(CfgKeys[l].zone.name, k) # RedisKey(CfgKeys[rs[i][1]].zone.name, rs[i][2]))
            => StateOf(redis', l, k) = StateOf(redis, l, k)

\* C37: a request changes the stored state of exactly the (zone, key) pairs
\* it names and of no other pair, in the remote backends with every
\* accepted key format: two distinct pairs never render to one remote key.
C37_OnlyNamedPairs ==
    /\ [](\A l, m \in LNames, j, k \in RenderedKeys :
             <<l, j>> # <<m, k>> => RedisKey(CfgKeys[l].zone.name, j) # RedisKey(CfgKeys[m].zone.name, k))
    /\ [][\A p \in LifeProcs :
             /\ Goes(p, "exec", "idle") => OthersKept(reqs[p])
             /\ Goes(p, "idle", "reply") => OthersKept(reqs'[p])]_vars

\* What does hold: a request writes the remote keys its pairs render to and
\* no other key, and with the default key format, whose colons keep these
\* zone names and keys apart, distinct pairs have distinct keys.
C37_OnlyRenderedKeys ==
    /\ [](key_format["redis_tx"] = Some(DefaultKeyFormat) =>
             \A l, m \in LNames, j, k \in RenderedKeys :
                 <<l, j>> # <<m, k>> => RedisKey(CfgKeys[l].zone.name, j) # RedisKey(CfgKeys[m].zone.name, k))
    /\ [][\A p \in LifeProcs :
             /\ Goes(p, "exec", "idle") => OthersKeptApart(reqs[p])
             /\ Goes(p, "idle", "reply") => OthersKeptApart(reqs'[p])]_vars

\* ------------------------------------------------------------------- C38
\* The limits with the sum burst + delay of each divided anew, bs[i] of it
\* as burst and the rest as delay.
Divided(limits, bs) ==
    [i \in DOMAIN limits |-> [limits[i] EXCEPT !.burst = bs[i], !.delay = limits[i].burst + limits[i].delay - bs[i]]]

Divisions(limits) ==
    LET sums == {limits[i].burst + limits[i].delay : i \in DOMAIN limits} \cup {0}
        top == CHOOSE n \in sums : \A m \in sums : m <= n
    IN  {bs \in [DOMAIN limits -> 0..top] : \A i \in DOMAIN limits : bs[i] <= limits[i].burst + limits[i].delay}

\* The decision r on the states priors at time t is the decision of every
\* limiter whose limits have the same rates and the same sums.
SumOnly(limits, priors, t, r) ==
    \A bs \in Divisions(limits) :
        LET other == Evaluate(Divided(limits, bs), priors, t, 1, Zero, <<>>)
        IN  other.accepted = r.accepted /\ other.states = r.states

\* C38: the decision and the stored states depend on burst and delay only
\* through their sum: a limiter with the same rates and the same
\* burst + delay, given the same request on the same states at the same
\* time, accepts or rejects alike and stores the same states; only the
\* delay returned may differ.
C38_SumOnly ==
    [][\A p \in Procs : (~Decided(p) /\ Decided(p)') => SumOnly(Limits(p)', PriorStates(p)', t1'[p], ev'[p][1])]_vars

\* A request accepted with a positive delay: with the whole sum as burst it
\* is accepted with none.
C38_Witness ==
    \E p \in Procs :
        /\ Accepted(p) /\ RatLess(Zero, ev[p][1].delay)
        /\ \E bs \in Divisions(Limits(p)) :
              RatEq(Evaluate(Divided(Limits(p), bs), PriorStates(p), t1[p], 1, Zero, <<>>).delay, Zero)

\* The last configure call on limiter l raised from the validation or from
\* the installation in the backend.
Failed(l) == cret[l] \in {"ValueError", "InstallError"}

\* C39: a configure call that fails on duplicate zone names or while the
\* configuration is installed in the backend leaves the limiter
\* unconfigured; a request that follows raises "not configured" and touches
\* nothing; a valid configure call that follows succeeds and binds its own
\* limits, which no later call changes.
C39_FailedConfigure ==
    /\ [](\A l \in RedisLimiters : Failed(l) => ~configured[l])
    /\ [][\A l \in RedisLimiters :
            /\ configured[l] => (configured'[l] /\ rate_limits'[l] = rate_limits[l])
            /\ (~configured[l] /\ pc' = pc /\ now' = now) => \A args \in InstallArgs :
                  /\ (configure_raises(l, args) \/ (SharesZone(args) /\ configure(l, args))) =>
                        (Failed(l)' /\ ~configured'[l])
                  /\ (Failed(l) /\ ~SharesZone(args) /\ configure(l, args)) =>
                        (cret'[l] = "ok" /\ configured'[l] /\ rate_limits'[l] = ToDict(args))]_vars
    /\ [][\A p \in LifeProcs : (pc[p] = "idle" /\ now' = now) => \A ks \in LifeRequests :
            /\ (Failed("redis_tx") /\ TxRequest(p, ks)) =>
                  (ret'[p] = Raise("RuntimeError") /\ pc'[p] = "idle" /\ redis' = redis)
            /\ (Failed("redis_script") /\ ScriptRequest(p, ks)) =>
                  (ret'[p] = Raise("RuntimeError") /\ pc'[p] = "idle" /\ redis' = redis)]_vars

\* The installation of a valid configuration has failed on the script
\* limiter: its limits are assigned, it is not configured, and a request has
\* raised "not configured" while the transactional limiter is configured
\* with other limits.
C39_Witness ==
    /\ cret["redis_script"] = "InstallError" /\ ~configured["redis_script"]
    /\ rate_limits["redis_script"] = ToDict(ArgsWarn)
    /\ configured["redis_tx"] /\ rate_limits["redis_tx"] = ToDict(ArgsA)
    /\ ret["p1"] = Raise("RuntimeError")

================================================================
